---- MODULE Spec2Model ----
(***************************************************************************)
(* Editor panels of the engine: the ABSM (animation blend state machine)   *)
(* graph editor with its undo/redo command stack, the curve editor widget  *)
(* and the particle system sidebar section.                                *)
(*                                                                         *)
(* Three specifications share this module, one per panel: SpecAbsm,        *)
(* SpecCurve and SpecParticle.  Each leaves the other panels' variables    *)
(* at their values after construction.                                     *)
(***************************************************************************)
EXTENDS Integers, Sequences, FiniteSets, TLC

\* ABSM editor (AbsmEditor).
VARIABLES
    absm_definition,   \* Option<MachineDefinition>
    command_stack,     \* AbsmCommandStack
    message_queue,     \* the channel from message_sender to message_receiver
    ui,                \* the user interface: its nodes and its message queue
    absm_panicked,     \* the editor's thread has panicked
    absm_sent,         \* history: every AbsmMessage sent so far, in order
    absm_log,          \* history: every AbsmMessage processed, with its effect
    absm_drags,        \* history: the CommitDrag messages handled
    absm_step          \* history: the last operation of the editor

\* Curve editor widget (CurveEditor).
VARIABLES
    keys,               \* Vec<CurveKeyView>
    zoom,               \* f32
    view_position,      \* Vector2<f32>
    view_matrix,        \* local to view coordinates
    screen_matrix,      \* local to screen coordinates
    inv_screen_matrix,  \* the matrix of point_to_local_space
    operation_context,  \* Option<OperationContext>
    selection,          \* Option<Selection>
    ce_bounds,          \* the screen bounds of the widget
    ce_queue,           \* the message queue of the user interface
    ce_buttons,         \* the mouse buttons that are down
    ce_panicked,        \* a handler of the widget has panicked
    ce_events,          \* the number of events the host has fed
    ce_others,          \* the number of them that were not mouse events
    ce_synced,          \* history: the curve of the last Sync to the widget,
                        \* while the keys are as that Sync left them
    ce_step             \* history: the last step of the widget

\* Particle system section of the sidebar (ParticleSystemSection).
VARIABLES
    ps_node,        \* the inspected node: its kind, emitters and acceleration
    emitter_index,  \* Option<usize>, the selected emitter
    ps_items,       \* the number of items of the emitters dropdown list
    ps_panicked,    \* the section has panicked
    ps_sent,        \* the messages the last handler sent to the editor
    ps_step         \* history: the last operation and what it started from

absmVars ==
    <<absm_definition, command_stack, message_queue, ui, absm_panicked,
      absm_sent, absm_log, absm_drags, absm_step>>

psVars == <<ps_node, emitter_index, ps_items, ps_panicked, ps_sent, ps_step>>

curveVars ==
    <<keys, zoom, view_position, view_matrix, screen_matrix,
      inv_screen_matrix, operation_context, selection, ce_bounds, ce_queue,
      ce_buttons, ce_panicked, ce_events, ce_others, ce_synced, ce_step>>

vars == <<absmVars, curveVars, psVars>>

\* An operation of one panel leaves the other panels alone.
AbsmOnly == UNCHANGED <<curveVars, psVars>>
CurveOnly == UNCHANGED <<absmVars, psVars>>
ParticleOnly == UNCHANGED <<absmVars, curveVars>>

\* ------------------------------------------------------------------ bounds

\* Total number of AbsmMessages the user interface sends in one behaviour.
MaxSent == 4
\* Number of "Create State" clicks in one behaviour.
MaxAddState == 2
\* Number of committed transitions in one behaviour.
MaxAddTransition == 1
\* Largest number of nodes one drag moves.
MaxDragEntries == 2
\* Canvas positions are 0 .. NumPositions - 1; each stands for one Vector2.
NumPositions == 2

\* ------------------------------------------------------------ Option<T>

None == <<>>
Some(x) == <<x>>
IsSome(o) == o # <<>>
Unwrap(o) == o[1]

RECURSIVE SortedSeq(_)
SortedSeq(S) ==
    IF S = {} THEN <<>>
    ELSE LET m == CHOOSE x \in S : \A y \in S : x <= y
         IN <<m>> \o SortedSeq(S \ {m})

Positions == 0 .. (NumPositions - 1)

\* ------------------------------------------------------------------ Pool
\* A pool hands out handles that are never equal to an earlier handle (a
\* reused slot gets a new generation); a handle is modelled as the serial
\* number of the spawn.  Handle 0 is Handle::NONE.

EmptyPool == [records |-> <<>>, reserved |-> {}, spawned |-> 0]

IsValidHandle(pool, h) == h \in DOMAIN pool.records

AliveCount(pool) == Cardinality(DOMAIN pool.records)

PoolSpawn(pool, payload) ==
    [pool EXCEPT !.records = ((pool.spawned + 1) :> payload) @@ @,
                 !.spawned = @ + 1]

PoolTakeReserve(pool, h) ==
    [pool EXCEPT !.records = [k \in (DOMAIN @) \ {h} |-> @[k]],
                 !.reserved = @ \cup {h}]

PoolPutBack(pool, h, payload) ==
    [pool EXCEPT !.records = (h :> payload) @@ @,
                 !.reserved = @ \ {h}]

PoolForgetTicket(pool, h) == [pool EXCEPT !.reserved = @ \ {h}]

\* ----------------------------------------------------- MachineDefinition

\* Vector2::default() of state1 and Vector2::new(300.0, 200.0) of state2.
PosState1 == 0
PosState2 == 1

StateDefinition(name, position) == [name |-> name, position |-> position]

TransitionDefinition(source, dest) == [source |-> source, dest |-> dest]

\* The definition AbsmEditor::new builds: two states and one transition.
InitialDefinition ==
    LET s1 == PoolSpawn(EmptyPool, StateDefinition("State", PosState1))
        s2 == PoolSpawn(s1, StateDefinition("Other State", PosState2))
        t1 == PoolSpawn(EmptyPool, TransitionDefinition(1, 2))
    IN [states |-> s2, transitions |-> t1]

\* What an observer of the document sees: the alive states with their names
\* and positions and the alive transitions.
Document(def) ==
    [states |-> def.states.records, transitions |-> def.transitions.records]

\* ------------------------------------------------------------- commands
\* One record shape for the four commands; the fields a command does not use
\* keep the values of BaseCommand.

BaseCommand ==
    [type |-> "", phase |-> "NonExecuted", state |-> StateDefinition("", 0),
     transition |-> TransitionDefinition(0, 0), handle |-> 0, node |-> 0,
     old_position |-> 0, new_position |-> 0, commands |-> <<>>]

AddStateCommand(state) ==
    [BaseCommand EXCEPT !.type = "AddState", !.state = state]

AddTransitionCommand(transition) ==
    [BaseCommand EXCEPT !.type = "AddTransition", !.transition = transition]

MoveStateNodeCommand(node, old_position, new_position) ==
    [BaseCommand EXCEPT !.type = "MoveStateNode", !.node = node,
                        !.old_position = old_position,
                        !.new_position = new_position]

CommandGroup(commands) ==
    [BaseCommand EXCEPT !.type = "CommandGroup", !.commands = commands]

\* The result of running a command: ok is FALSE when the command panicked.
CmdResult(ok, cmd, def) == [ok |-> ok, cmd |-> cmd, def |-> def]

ExecuteLeaf(cmd, def) ==
    CASE cmd.type = "AddState" ->
           IF cmd.phase = "NonExecuted"
           THEN CmdResult(TRUE,
                    [cmd EXCEPT !.phase = "Executed",
                                !.handle = def.states.spawned + 1],
                    [def EXCEPT !.states = PoolSpawn(@, cmd.state)])
           ELSE IF cmd.phase = "Reverted"
           THEN CmdResult(TRUE,
                    [cmd EXCEPT !.phase = "Executed"],
                    [def EXCEPT !.states = PoolPutBack(@, cmd.handle, cmd.state)])
           ELSE CmdResult(FALSE, cmd, def)
      [] cmd.type = "AddTransition" ->
           IF cmd.phase = "NonExecuted"
           THEN CmdResult(TRUE,
                    [cmd EXCEPT !.phase = "Executed",
                                !.handle = def.transitions.spawned + 1],
                    [def EXCEPT !.transitions = PoolSpawn(@, cmd.transition)])
           ELSE IF cmd.phase = "Reverted"
           THEN CmdResult(TRUE,
                    [cmd EXCEPT !.phase = "Executed"],
                    [def EXCEPT !.transitions =
                                   PoolPutBack(@, cmd.handle, cmd.transition)])
           ELSE CmdResult(FALSE, cmd, def)
      [] cmd.type = "MoveStateNode" ->
           IF IsValidHandle(def.states, cmd.node)
           THEN CmdResult(TRUE, cmd,
                    [def EXCEPT !.states.records[cmd.node].position =
                                   cmd.new_position])
           ELSE CmdResult(FALSE, cmd, def)
      [] OTHER -> CmdResult(FALSE, cmd, def)

RevertLeaf(cmd, def) ==
    CASE cmd.type = "AddState" ->
           IF cmd.phase = "Executed" /\ IsValidHandle(def.states, cmd.handle)
           THEN CmdResult(TRUE,
                    [cmd EXCEPT !.phase = "Reverted",
                                !.state = def.states.records[cmd.handle]],
                    [def EXCEPT !.states = PoolTakeReserve(@, cmd.handle)])
           ELSE CmdResult(FALSE, cmd, def)
      [] cmd.type = "AddTransition" ->
           IF cmd.phase = "Executed" /\ IsValidHandle(def.transitions, cmd.handle)
           THEN CmdResult(TRUE,
                    [cmd EXCEPT !.phase = "Reverted",
                                !.transition = def.transitions.records[cmd.handle]],
                    [def EXCEPT !.transitions = PoolTakeReserve(@, cmd.handle)])
           ELSE CmdResult(FALSE, cmd, def)
      [] cmd.type = "MoveStateNode" ->
           IF IsValidHandle(def.states, cmd.node)
           THEN CmdResult(TRUE, cmd,
                    [def EXCEPT !.states.records[cmd.node].position =
                                   cmd.old_position])
           ELSE CmdResult(FALSE, cmd, def)
      [] OTHER -> CmdResult(FALSE, cmd, def)

FinalizeLeaf(cmd, def) ==
    CASE cmd.type = "AddState" /\ cmd.phase = "Reverted" ->
           [def EXCEPT !.states = PoolForgetTicket(@, cmd.handle)]
      [] cmd.type = "AddTransition" /\ cmd.phase = "Reverted" ->
           [def EXCEPT !.transitions = PoolForgetTicket(@, cmd.handle)]
      [] OTHER -> def

\* A group executes its commands in order and stops at the first panic.
RECURSIVE ExecuteGroup(_, _, _)
ExecuteGroup(cmds, i, def) ==
    IF i > Len(cmds) THEN CmdResult(TRUE, cmds, def)
    ELSE LET Continue(r) ==
                 IF r.ok
                 THEN ExecuteGroup([cmds EXCEPT ![i] = r.cmd], i + 1, r.def)
                 ELSE CmdResult(FALSE, cmds, def)
         IN Continue(ExecuteLeaf(cmds[i], def))

\* A group reverts its commands in reverse order.
RECURSIVE RevertGroup(_, _, _)
RevertGroup(cmds, i, def) ==
    IF i < 1 THEN CmdResult(TRUE, cmds, def)
    ELSE LET Continue(r) ==
                 IF r.ok
                 THEN RevertGroup([cmds EXCEPT ![i] = r.cmd], i - 1, r.def)
                 ELSE CmdResult(FALSE, cmds, def)
         IN Continue(RevertLeaf(cmds[i], def))

RECURSIVE FinalizeGroup(_, _, _)
FinalizeGroup(cmds, i, def) ==
    IF i > Len(cmds) THEN def
    ELSE FinalizeGroup(cmds, i + 1, FinalizeLeaf(cmds[i], def))

Execute(cmd, def) ==
    IF cmd.type = "CommandGroup"
    THEN LET Regroup(r) ==
                 CmdResult(r.ok, [cmd EXCEPT !.commands = r.cmd], r.def)
         IN Regroup(ExecuteGroup(cmd.commands, 1, def))
    ELSE ExecuteLeaf(cmd, def)

Revert(cmd, def) ==
    IF cmd.type = "CommandGroup"
    THEN LET Regroup(r) ==
                 CmdResult(r.ok, [cmd EXCEPT !.commands = r.cmd], r.def)
         IN Regroup(RevertGroup(cmd.commands, Len(cmd.commands), def))
    ELSE RevertLeaf(cmd, def)

Finalize(cmd, def) ==
    IF cmd.type = "CommandGroup"
    THEN FinalizeGroup(cmd.commands, 1, def)
    ELSE FinalizeLeaf(cmd, def)

\* -------------------------------------------------------- command stack
\* commands[1 .. top] are done, the rest are undone; top = 0 is None.

NewCommandStack == [commands |-> <<>>, top |-> 0]

StackResult(ok, stack, def) == [ok |-> ok, stack |-> stack, def |-> def]

RECURSIVE FinalizeAll(_, _, _)
FinalizeAll(cmds, i, def) ==
    IF i > Len(cmds) THEN def
    ELSE FinalizeAll(cmds, i + 1, Finalize(cmds[i], def))

StackDoCommand(stack, command, def) ==
    LET top == IF stack.commands = <<>> THEN 1 ELSE stack.top + 1
        kept == SubSeq(stack.commands, 1, top - 1)
        dropped == SubSeq(stack.commands, top, Len(stack.commands))
        cleaned == FinalizeAll(dropped, 1, def)
        Push(r) ==
            StackResult(r.ok, [commands |-> Append(kept, r.cmd), top |-> top],
                        r.def)
    IN Push(Execute(command, cleaned))

StackUndo(stack, def) ==
    IF stack.commands # <<>> /\ stack.top > 0
    THEN IF stack.top <= Len(stack.commands)
         THEN LET MoveTop(r) ==
                      StackResult(r.ok,
                          [commands |->
                               [stack.commands EXCEPT ![stack.top] = r.cmd],
                           top |-> stack.top - 1],
                          r.def)
              IN MoveTop(Revert(stack.commands[stack.top], def))
         ELSE StackResult(TRUE, [stack EXCEPT !.top = @ - 1], def)
    ELSE StackResult(TRUE, stack, def)

StackRedo(stack, def) ==
    IF stack.commands # <<>> /\ stack.top < Len(stack.commands)
    THEN LET MoveTop(r) ==
                 StackResult(r.ok,
                     [commands |->
                          [stack.commands EXCEPT ![stack.top + 1] = r.cmd],
                      top |-> stack.top + 1],
                     r.def)
         IN MoveTop(Execute(stack.commands[stack.top + 1], def))
    ELSE StackResult(TRUE, stack, def)

StackClear(stack, def) ==
    StackResult(TRUE, [stack EXCEPT !.commands = <<>>],
                FinalizeAll(stack.commands, 1, def))

\* ---------------------------------------------------------- AbsmMessage

DoCommandMsg(command) == [type |-> "DoCommand", command |-> command]
UndoMsg == [type |-> "Undo", command |-> BaseCommand]
RedoMsg == [type |-> "Redo", command |-> BaseCommand]
ClearCommandStackMsg == [type |-> "ClearCommandStack", command |-> BaseCommand]

\* ------------------------------------------------------- user interface
\* The widgets the editor works with: the state and transition views built
\* for the canvas.  A view is a child of the canvas once its link message
\* has been delivered, and is gone once its remove message has been.

StateNode(model_handle, name, position) ==
    [kind |-> "state", model_handle |-> model_handle, name |-> name,
     position |-> position, linked |-> FALSE, source |-> 0, dest |-> 0]

TransitionNode(model_handle, source, dest) ==
    [kind |-> "transition", model_handle |-> model_handle, name |-> "",
     position |-> 0, linked |-> FALSE, source |-> source, dest |-> dest]

UiMessage(type, target, name, position) ==
    [type |-> type, target |-> target, name |-> name, position |-> position]

EmptyUi == [nodes |-> <<>>, messages |-> <<>>, next |-> 1]

UiBuild(u, node) ==
    [u EXCEPT !.nodes = (u.next :> node) @@ @, !.next = @ + 1]

UiSend(u, msg) == [u EXCEPT !.messages = Append(@, msg)]

\* canvas.children() filtered by component, in the order they were built.
CanvasChildren(u, kind) ==
    SortedSeq({v \in DOMAIN u.nodes :
                  u.nodes[v].linked /\ u.nodes[v].kind = kind})

ApplyUiMessage(nodes, m) ==
    IF m.target \notin DOMAIN nodes THEN nodes
    ELSE CASE m.type = "link" -> [nodes EXCEPT ![m.target].linked = TRUE]
           [] m.type = "remove" ->
                [v \in (DOMAIN nodes) \ {m.target} |-> nodes[v]]
           [] m.type = "name" -> [nodes EXCEPT ![m.target].name = m.name]
           [] m.type = "desired_position" ->
                [nodes EXCEPT ![m.target].position = m.position]
           [] OTHER -> nodes

RECURSIVE DeliverAll(_, _, _)
DeliverAll(nodes, msgs, i) ==
    IF i > Len(msgs) THEN nodes
    ELSE DeliverAll(ApplyUiMessage(nodes, msgs[i]), msgs, i + 1)

fetch_state_node_model_handle(handle, u) == u.nodes[handle].model_handle

\* --------------------------------------------------------- sync_to_model

SyncAcc(u, views) == [ui |-> u, views |-> views]

HasViewOf(u, views, model_handle) ==
    \E k \in 1 .. Len(views) : u.nodes[views[k]].model_handle = model_handle

\* Ordering::Less, "A state was added."
RECURSIVE AddStateViews(_, _, _, _)
AddStateViews(def, handles, i, acc) ==
    IF i > Len(handles) THEN acc
    ELSE LET h == handles[i]
             state == def.states.records[h]
             view == acc.ui.next
             built == UiBuild(acc.ui, StateNode(h, state.name, state.position))
         IN IF ~HasViewOf(acc.ui, acc.views, h)
            THEN AddStateViews(def, handles, i + 1,
                     SyncAcc(UiSend(built, UiMessage("link", view, "", 0)),
                             Append(acc.views, view)))
            ELSE AddStateViews(def, handles, i + 1, acc)

\* Ordering::Greater, "A state was removed."
RECURSIVE RemoveStateViews(_, _, _, _)
RemoveStateViews(def, snapshot, i, acc) ==
    IF i > Len(snapshot) THEN acc
    ELSE LET view == snapshot[i]
             model == acc.ui.nodes[view].model_handle
         IN IF ~IsValidHandle(def.states, model)
            THEN RemoveStateViews(def, snapshot, i + 1,
                     SyncAcc(UiSend(acc.ui, UiMessage("remove", view, "", 0)),
                             SelectSeq(acc.views, LAMBDA s : s # view)))
            ELSE RemoveStateViews(def, snapshot, i + 1, acc)

\* "Sync state nodes."  The lookup definition.states[model_handle] panics on
\* a handle that is not alive.
RECURSIVE SyncStateNodes(_, _, _, _)
SyncStateNodes(def, views, i, u) ==
    IF i > Len(views) THEN [ok |-> TRUE, ui |-> u]
    ELSE LET state_node == u.nodes[views[i]]
         IN IF ~IsValidHandle(def.states, state_node.model_handle)
            THEN [ok |-> FALSE, ui |-> u]
            ELSE LET state_model_ref == def.states.records[state_node.model_handle]
                     named == IF state_model_ref.name # state_node.name
                              THEN UiSend(u, UiMessage("name", views[i],
                                                       state_node.name, 0))
                              ELSE u
                 IN SyncStateNodes(def, views, i + 1,
                        UiSend(named, UiMessage("desired_position", views[i], "",
                                                state_model_ref.position)))

find_state_view(state_handle, states, u) ==
    LET found == SelectSeq(states,
                     LAMBDA s : u.nodes[s].model_handle = state_handle)
    IN IF found = <<>> THEN 0 ELSE Head(found)

\* Ordering::Less, "A transition was added."
RECURSIVE AddTransitionViews(_, _, _, _, _)
AddTransitionViews(def, handles, i, states, acc) ==
    IF i > Len(handles) THEN acc
    ELSE LET h == handles[i]
             transition == def.transitions.records[h]
             view == acc.ui.next
             built == UiBuild(acc.ui,
                          TransitionNode(h,
                              find_state_view(transition.source, states, acc.ui),
                              find_state_view(transition.dest, states, acc.ui)))
             linked == UiSend(built, UiMessage("link", view, "", 0))
             lowered == UiSend(linked, UiMessage("lowermost", view, "", 0))
         IN IF ~HasViewOf(acc.ui, acc.views, h)
            THEN AddTransitionViews(def, handles, i + 1, states,
                     SyncAcc(lowered, Append(acc.views, view)))
            ELSE AddTransitionViews(def, handles, i + 1, states, acc)

\* Ordering::Greater, "A transition was removed."
RECURSIVE RemoveTransitionViews(_, _, _, _)
RemoveTransitionViews(def, snapshot, i, acc) ==
    IF i > Len(snapshot) THEN acc
    ELSE LET view == snapshot[i]
             model == acc.ui.nodes[view].model_handle
         IN IF ~IsValidHandle(def.transitions, model)
            THEN RemoveTransitionViews(def, snapshot, i + 1,
                     SyncAcc(UiSend(acc.ui, UiMessage("remove", view, "", 0)),
                             SelectSeq(acc.views, LAMBDA s : s # view)))
            ELSE RemoveTransitionViews(def, snapshot, i + 1, acc)

\* The state half of sync_to_model: the views are added or removed by
\* comparing the number of views with the number of alive states.
SyncStates(def, u) ==
    LET states == CanvasChildren(u, "state")
        alive == SortedSeq(DOMAIN def.states.records)
    IN CASE Len(states) < AliveCount(def.states) ->
              AddStateViews(def, alive, 1, SyncAcc(u, states))
         [] Len(states) > AliveCount(def.states) ->
              RemoveStateViews(def, states, 1, SyncAcc(u, states))
         [] OTHER -> SyncAcc(u, states)

SyncTransitions(def, u, transitions, states) ==
    LET alive == SortedSeq(DOMAIN def.transitions.records)
    IN CASE Len(transitions) < AliveCount(def.transitions) ->
              AddTransitionViews(def, alive, 1, states, SyncAcc(u, transitions))
         [] Len(transitions) > AliveCount(def.transitions) ->
              RemoveTransitionViews(def, transitions, 1, SyncAcc(u, transitions))
         [] OTHER -> SyncAcc(u, transitions)

\* sync_to_model: ok is FALSE when it panicked.
sync_to_model(definition, u) ==
    IF IsSome(definition)
    THEN LET def == Unwrap(definition)
             transitions == CanvasChildren(u, "transition")
             Transitions(s, n) ==
                 IF n.ok
                 THEN [ok |-> TRUE,
                       ui |-> SyncTransitions(def, n.ui, transitions,
                                              s.views).ui]
                 ELSE [ok |-> FALSE, ui |-> n.ui]
             StateNodes(s) ==
                 Transitions(s, SyncStateNodes(def, s.views, 1, s.ui))
         IN StateNodes(SyncStates(def, u))
    ELSE [ok |-> TRUE, ui |-> u]

\* ------------------------------------------------------------ AbsmEditor

\* The result of one of the four command operations: result is the value the
\* function returns, ok is FALSE when the command stack panicked.
OpResult(result, ok, definition, stack) ==
    [result |-> result, ok |-> ok, definition |-> definition, stack |-> stack]

\* do_command that reports a change when no definition is loaded.
do_command_returns_true(definition, stack, command) ==
    IF IsSome(definition)
    THEN LET Done(r) == OpResult(TRUE, r.ok, Some(r.def), r.stack)
         IN Done(StackDoCommand(stack, command, Unwrap(definition)))
    ELSE OpResult(TRUE, TRUE, definition, stack)

do_command(definition, stack, command) ==
    IF IsSome(definition)
    THEN LET Done(r) == OpResult(TRUE, r.ok, Some(r.def), r.stack)
         IN Done(StackDoCommand(stack, command, Unwrap(definition)))
    ELSE OpResult(FALSE, TRUE, definition, stack)

undo_command(definition, stack) ==
    IF IsSome(definition)
    THEN LET Done(r) == OpResult(TRUE, r.ok, Some(r.def), r.stack)
         IN Done(StackUndo(stack, Unwrap(definition)))
    ELSE OpResult(FALSE, TRUE, definition, stack)

\* redo_command with the stack's undo called in place of its redo.
redo_command_calls_undo(definition, stack) ==
    IF IsSome(definition)
    THEN LET Done(r) == OpResult(TRUE, r.ok, Some(r.def), r.stack)
         IN Done(StackUndo(stack, Unwrap(definition)))
    ELSE OpResult(FALSE, TRUE, definition, stack)

redo_command(definition, stack) ==
    IF IsSome(definition)
    THEN LET Done(r) == OpResult(TRUE, r.ok, Some(r.def), r.stack)
         IN Done(StackRedo(stack, Unwrap(definition)))
    ELSE OpResult(FALSE, TRUE, definition, stack)

\* clear_command_stack that leaves the commands on the stack.
clear_command_stack_keeps_commands(definition, stack) ==
    IF IsSome(definition)
    THEN OpResult(TRUE, TRUE, definition, stack)
    ELSE OpResult(FALSE, TRUE, definition, stack)

clear_command_stack(definition, stack) ==
    IF IsSome(definition)
    THEN LET Done(r) == OpResult(TRUE, r.ok, Some(r.def), r.stack)
         IN Done(StackClear(stack, Unwrap(definition)))
    ELSE OpResult(FALSE, TRUE, definition, stack)

\* The match of update's loop.
Dispatch(definition, stack, message) ==
    CASE message.type = "DoCommand" ->
           do_command(definition, stack, message.command)
      [] message.type = "Undo" -> undo_command(definition, stack)
      [] message.type = "Redo" -> redo_command(definition, stack)
      [] OTHER -> clear_command_stack(definition, stack)

DocumentOf(definition) ==
    IF IsSome(definition) THEN Some(Document(Unwrap(definition))) ELSE None

\* The command of the stack a message acts on, BaseCommand when it has none.
TargetOf(message, stack) ==
    CASE message.type = "DoCommand" -> message.command
      [] message.type = "Undo" /\ stack.top >= 1
                               /\ stack.top <= Len(stack.commands) ->
           stack.commands[stack.top]
      [] message.type = "Redo" /\ stack.top < Len(stack.commands) ->
           stack.commands[stack.top + 1]
      [] OTHER -> BaseCommand

LogEntry(message, before, r) ==
    [message |-> message,
     target |-> TargetOf(message, before.stack),
     before |-> DocumentOf(before.definition),
     after |-> DocumentOf(r.definition),
     top_before |-> before.stack.top,
     len_before |-> Len(before.stack.commands),
     top_after |-> r.stack.top,
     result |-> r.result]

\* The loop of update as "if let": one message per call.
DrainQueueOnce(queue, acc) ==
    IF queue = <<>> THEN acc
    ELSE LET message == Head(queue)
             Processed(r) ==
                 IF r.ok
                 THEN [definition |-> r.definition, stack |-> r.stack,
                       need_sync |-> acc.need_sync \/ r.result,
                       ok |-> TRUE, queue |-> Tail(queue),
                       log |-> Append(acc.log, LogEntry(message, acc, r))]
                 ELSE [acc EXCEPT !.ok = FALSE, !.queue = Tail(queue)]
         IN Processed(Dispatch(acc.definition, acc.stack, message))

\* The loop of update: while let Ok(message) = try_recv().  A panic of a
\* command ends the loop with the editor as it was before that message.
RECURSIVE DrainQueue(_, _)
DrainQueue(queue, acc) ==
    IF queue = <<>> THEN acc
    ELSE LET message == Head(queue)
             Processed(r) ==
                 IF r.ok
                 THEN DrainQueue(Tail(queue),
                          [definition |-> r.definition, stack |-> r.stack,
                           need_sync |-> acc.need_sync \/ r.result,
                           ok |-> TRUE, queue |-> Tail(queue),
                           log |-> Append(acc.log, LogEntry(message, acc, r))])
                 ELSE [acc EXCEPT !.ok = FALSE, !.queue = Tail(queue)]
         IN Processed(Dispatch(acc.definition, acc.stack, message))

\* update that syncs whether or not a message was processed.
update_syncs_always(definition, stack, queue, u) ==
    LET Synced(d, s) ==
            [definition |-> d.definition, stack |-> d.stack, queue |-> d.queue,
             ui |-> s.ui, ok |-> d.ok /\ s.ok, log |-> d.log,
             sync_calls |-> IF d.ok THEN 1 ELSE 0]
        Drained(d) ==
            Synced(d, IF d.ok
                      THEN sync_to_model(d.definition, u)
                      ELSE [ok |-> TRUE, ui |-> u])
    IN Drained(DrainQueue(queue,
                   [definition |-> definition, stack |-> stack,
                    need_sync |-> FALSE, ok |-> TRUE, queue |-> queue,
                    log |-> <<>>]))

\* AbsmEditor::update.
update(definition, stack, queue, u) ==
    LET Synced(d, s) ==
            [definition |-> d.definition, stack |-> d.stack, queue |-> d.queue,
             ui |-> s.ui, ok |-> d.ok /\ s.ok, log |-> d.log,
             sync_calls |-> IF d.ok /\ d.need_sync THEN 1 ELSE 0]
        Drained(d) ==
            Synced(d, IF d.ok /\ d.need_sync
                      THEN sync_to_model(d.definition, u)
                      ELSE [ok |-> TRUE, ui |-> u])
    IN Drained(DrainQueue(queue,
                   [definition |-> definition, stack |-> stack,
                    need_sync |-> FALSE, ok |-> TRUE, queue |-> queue,
                    log |-> <<>>]))

\* What the editor's last operation was and what it did.
Step(op, processed, sync_calls, ui_sent) ==
    [op |-> op, processed |-> processed, sync_calls |-> sync_calls,
     ui_sent |-> ui_sent]

Update ==
    /\ ~absm_panicked
    /\ ui.messages = <<>>
    /\ \E r \in {update(absm_definition, command_stack, message_queue, ui)} :
          /\ absm_definition' = r.definition
          /\ command_stack' = r.stack
          /\ message_queue' = r.queue
          /\ ui' = r.ui
          /\ absm_panicked' = ~r.ok
          /\ absm_log' = absm_log \o r.log
          /\ absm_step' = Step("update", Len(r.log), r.sync_calls,
                               Len(r.ui.messages))
    /\ UNCHANGED <<absm_sent, absm_drags>>
    /\ AbsmOnly

\* The host's frame loop polls every pending UI message.
PollUiMessages ==
    /\ ~absm_panicked
    /\ ui.messages # <<>>
    /\ ui' = [ui EXCEPT !.nodes = DeliverAll(@, ui.messages, 1),
                        !.messages = <<>>]
    /\ absm_step' = Step("poll", 0, 0, 0)
    /\ UNCHANGED <<absm_definition, command_stack, message_queue,
                   absm_panicked, absm_sent, absm_log, absm_drags>>
    /\ AbsmOnly

\* message_sender.send(message)
Send(message) ==
    /\ message_queue' = Append(message_queue, message)
    /\ absm_sent' = Append(absm_sent, message)

CanSend ==
    /\ ~absm_panicked
    /\ ui.messages = <<>>
    /\ Len(absm_sent) < MaxSent

CountSent(type) ==
    Cardinality({i \in 1 .. Len(absm_sent) :
                    /\ absm_sent[i].type = "DoCommand"
                    /\ absm_sent[i].command.type = type})

\* CanvasContextMenu::handle_ui_message: a click on "Create State".
CreateStateCommand(position) ==
    AddStateCommand(StateDefinition("New State", position))

CreateStateClick(position) ==
    /\ CanSend
    /\ CountSent("AddState") < MaxAddState
    /\ Send(DoCommandMsg(CreateStateCommand(position)))
    /\ absm_step' = Step("create_state", 0, 0, 0)
    /\ UNCHANGED <<absm_definition, command_stack, ui, absm_panicked,
                   absm_log, absm_drags>>
    /\ AbsmOnly

\* AbsmEditor::handle_ui_message, AbsmCanvasMessage::CommitTransition.
CommitTransitionCommand(source, dest, u) ==
    AddTransitionCommand(
        TransitionDefinition(fetch_state_node_model_handle(source, u),
                             fetch_state_node_model_handle(dest, u)))

CommitTransition(source, dest, to_canvas, from_widget) ==
    /\ CanSend
    /\ CountSent("AddTransition") < MaxAddTransition
    /\ IF to_canvas /\ from_widget
       THEN Send(DoCommandMsg(CommitTransitionCommand(source, dest, ui)))
       ELSE UNCHANGED <<message_queue, absm_sent>>
    /\ absm_step' = Step("commit_transition", 0, 0, 0)
    /\ UNCHANGED <<absm_definition, command_stack, ui, absm_panicked,
                   absm_log, absm_drags>>
    /\ AbsmOnly

\* The canvas ends a drag: the dragged views are at their new positions and
\* each entry holds the view and the position it had when the drag began.
DragEntries(u, views) ==
    [i \in 1 .. Len(views) |->
        [node |-> views[i], initial_position |-> u.nodes[views[i]].position]]

DragTo(u, views, delta) ==
    [u EXCEPT !.nodes =
        [v \in DOMAIN @ |->
            IF \E i \in 1 .. Len(views) : views[i] = v
            THEN [@[v] EXCEPT !.position = (@ + delta) % NumPositions]
            ELSE @[v]]]

\* CommitDrag sending one DoCommand per entry instead of one for the group.
CommitDragMessagesUngrouped(entries, u) ==
    [i \in 1 .. Len(entries) |->
        DoCommandMsg(CommandGroup(
            <<MoveStateNodeCommand(
                fetch_state_node_model_handle(entries[i].node, u),
                entries[i].initial_position,
                u.nodes[entries[i].node].position)>>))]

\* AbsmEditor::handle_ui_message, AbsmCanvasMessage::CommitDrag: the
\* messages it sends.
CommitDragMessages(entries, u) ==
    <<DoCommandMsg(CommandGroup(
        [i \in 1 .. Len(entries) |->
            MoveStateNodeCommand(
                fetch_state_node_model_handle(entries[i].node, u),
                entries[i].initial_position,
                u.nodes[entries[i].node].position)]))>>

CommitDrag(views, delta) ==
    /\ CanSend
    /\ LET entries == DragEntries(ui, views)
           dragged == DragTo(ui, views, delta)
           sent == CommitDragMessages(entries, dragged)
       IN /\ ui' = dragged
          /\ message_queue' = message_queue \o sent
          /\ absm_sent' = absm_sent \o sent
          /\ absm_drags' = Append(absm_drags,
                 [first |-> Len(absm_sent) + 1,
                  count |-> Len(sent),
                  entries |-> [i \in 1 .. Len(entries) |->
                      [model |-> ui.nodes[entries[i].node].model_handle,
                       initial_position |-> entries[i].initial_position,
                       new_position |-> dragged.nodes[entries[i].node].position]]])
    /\ absm_step' = Step("commit_drag", 0, 0, 0)
    /\ UNCHANGED <<absm_definition, command_stack, absm_panicked, absm_log>>
    /\ AbsmOnly

\* Menu::handle_ui_message: the Undo, Redo and Clear Command Stack items.
MenuClick(message) ==
    /\ CanSend
    /\ Send(message)
    /\ absm_step' = Step("menu", 0, 0, 0)
    /\ UNCHANGED <<absm_definition, command_stack, ui, absm_panicked,
                   absm_log, absm_drags>>
    /\ AbsmOnly

LinkedStateViews == {v \in DOMAIN ui.nodes :
                        ui.nodes[v].linked /\ ui.nodes[v].kind = "state"}

DragSelections ==
    {SortedSeq(S) : S \in {T \in SUBSET LinkedStateViews :
                              T # {} /\ Cardinality(T) <= MaxDragEntries}}

\* AbsmEditor::new: the definition is built and synced to the canvas.
AbsmInit ==
    /\ absm_definition = Some(InitialDefinition)
    /\ command_stack = NewCommandStack
    /\ message_queue = <<>>
    /\ ui = sync_to_model(Some(InitialDefinition), EmptyUi).ui
    /\ absm_panicked = FALSE
    /\ absm_sent = <<>>
    /\ absm_log = <<>>
    /\ absm_drags = <<>>
    /\ absm_step = Step("new", 0, 1, 0)

\* The definitions an editor is given in place of the one it built: none, or
\* the built one with its first state renamed.  The views are the ones built
\* for InitialDefinition.
GivenDefinitions ==
    {None,
     Some([InitialDefinition EXCEPT !.states.records[1].name = "Renamed"])}

AbsmInitGiven ==
    /\ absm_definition \in GivenDefinitions
    /\ command_stack = NewCommandStack
    /\ message_queue = <<>>
    /\ ui = sync_to_model(Some(InitialDefinition), EmptyUi).ui
    /\ absm_panicked = FALSE
    /\ absm_sent = <<>>
    /\ absm_log = <<>>
    /\ absm_drags = <<>>
    /\ absm_step = Step("new", 0, 1, 0)

AbsmNext ==
    \/ Update
    \/ PollUiMessages
    \/ \E position \in Positions : CreateStateClick(position)
    \/ \E source \in LinkedStateViews, dest \in LinkedStateViews :
          \E to_canvas \in BOOLEAN, from_widget \in BOOLEAN :
             source # dest /\ CommitTransition(source, dest, to_canvas, from_widget)
    \/ \E views \in DragSelections, delta \in 1 .. (NumPositions - 1) :
          CommitDrag(views, delta)
    \/ \E message \in {UndoMsg, RedoMsg, ClearCommandStackMsg} :
          MenuClick(message)

\* ------------------------------------------------- claims: ABSM editor

IsDo(i) == absm_log[i].message.type = "DoCommand"
IsUndo(i) == absm_log[i].message.type = "Undo"
IsRedo(i) == absm_log[i].message.type = "Redo"

\* C1: processing DoCommand(c) and then Undo leaves the definition as it was
\* before DoCommand(c), for every command the editor enqueues.
C1_DoThenUndoRestores ==
    \A i \in 1 .. (Len(absm_log) - 1) :
        (IsDo(i) /\ IsUndo(i + 1)) =>
            absm_log[i + 1].after = absm_log[i].before

\* log entries i .. i + k - 1 are Undos and i + k .. i + 2k - 1 are Redos.
UndosThenRedos(i, k) ==
    /\ i + 2 * k - 1 <= Len(absm_log)
    /\ \A j \in i .. (i + k - 1) : IsUndo(j)
    /\ \A j \in (i + k) .. (i + 2 * k - 1) : IsRedo(j)

C3_RedoAfterNewCommandIsNoOp ==
    \A i \in 1 .. (Len(absm_log) - 2) :
        (IsUndo(i) /\ IsDo(i + 1) /\ IsRedo(i + 2)) =>
            absm_log[i + 2].after = absm_log[i + 2].before

\* C3: after an Undo and a new DoCommand(c'), a Redo leaves the definition
\* unchanged, and an Undo leaves the definition as it was before c'.
C3_LinearStack ==
    /\ C3_RedoAfterNewCommandIsNoOp
    /\ \A i \in 1 .. (Len(absm_log) - 2) :
          (IsUndo(i) /\ IsDo(i + 1) /\ IsUndo(i + 2)) =>
              absm_log[i + 2].after = absm_log[i + 1].before

\* The positions of the states a group moves, read from a document.
AllMovedAt(document, group, new) ==
    \A j \in 1 .. Len(group.commands) :
        LET m == group.commands[j]
        IN /\ m.node \in DOMAIN Unwrap(document).states
           /\ Unwrap(document).states[m.node].position =
                 (IF new THEN m.new_position ELSE m.old_position)

\* The one message a CommitDrag has to send for its entries.
IsGroupOfEntries(message, entries) ==
    /\ message.type = "DoCommand"
    /\ message.command.type = "CommandGroup"
    /\ Len(message.command.commands) = Len(entries)
    /\ \A j \in 1 .. Len(entries) :
          LET m == message.command.commands[j]
          IN /\ m.type = "MoveStateNode"
             /\ m.node = entries[j].model
             /\ m.old_position = entries[j].initial_position
             /\ m.new_position = entries[j].new_position

\* C4: a CommitDrag with n entries sends exactly one DoCommand holding one
\* CommandGroup of n MoveStateNode commands, one per entry; a DoCommand or a
\* Redo of a group leaves every moved state at its new position and an Undo
\* of it leaves every one at its initial position, so no processed message
\* leaves a group partly applied.
C4_DragIsOneAtomicGroup ==
    /\ \A d \in 1 .. Len(absm_drags) :
          /\ absm_drags[d].count = 1
          /\ IsGroupOfEntries(absm_sent[absm_drags[d].first],
                              absm_drags[d].entries)
    /\ \A i \in 1 .. Len(absm_log) :
          absm_log[i].target.type = "CommandGroup" =>
              AllMovedAt(absm_log[i].after, absm_log[i].target, ~IsUndo(i))

\* Reached: a drag of two nodes was done, undone and redone.
C4_Witness ==
    \E i \in 1 .. Len(absm_log) :
        /\ i + 2 <= Len(absm_log)
        /\ IsDo(i) /\ IsUndo(i + 1) /\ IsRedo(i + 2)
        /\ absm_log[i].target.type = "CommandGroup"
        /\ Len(absm_log[i].target.commands) = 2
        /\ absm_log[i + 1].target.type = "CommandGroup"
        /\ absm_log[i + 2].target.type = "CommandGroup"
        /\ absm_log[i + 1].after = absm_log[i].before
        /\ absm_log[i + 1].after # absm_log[i].after
        /\ Len(absm_drags) = 1

LoggedMessages == [i \in 1 .. Len(absm_log) |-> absm_log[i].message]

\* C5: when update returns the queue is empty and the messages processed so
\* far are exactly the messages sent so far, in the order they were sent,
\* each once; between updates the processed messages followed by the queued
\* ones are the sent ones.
C5_UpdateDrainsQueueInOrder ==
    ~absm_panicked =>
        /\ LoggedMessages \o message_queue = absm_sent
        /\ absm_step.op = "update" => message_queue = <<>>

\* Reached: an update that processed a batch of three different messages.
C5_Witness ==
    /\ ~absm_panicked
    /\ absm_step.op = "update"
    /\ absm_step.processed = 3
    /\ Len(absm_log) = 3
    /\ absm_log[1].message # absm_log[2].message
    /\ absm_log[2].message # absm_log[3].message
    /\ absm_log[1].message # absm_log[3].message

\* The canvas once the pending UI messages have been delivered.
DeliveredNodes == DeliverAll(ui.nodes, ui.messages, 1)

DeliveredStateViews ==
    {v \in DOMAIN DeliveredNodes :
        DeliveredNodes[v].linked /\ DeliveredNodes[v].kind = "state"}

\* C6: after an update and the delivery of its UI messages the canvas holds
\* exactly one state view per alive state and no view of a state that is
\* not alive.
C6_OneViewPerAliveState ==
    IsSome(absm_definition) =>
        LET alive == DOMAIN Unwrap(absm_definition).states.records
        IN /\ \A v \in DeliveredStateViews :
                 DeliveredNodes[v].model_handle \in alive
           /\ \A h \in alive :
                 Cardinality({v \in DeliveredStateViews :
                                 DeliveredNodes[v].model_handle = h}) = 1

\* C11: the lookup definition.states[state_node.model_handle] of the "Sync
\* state nodes" loop never fails: no update that drained its batch and called
\* sync_to_model ends in a panic.
C11_SyncLookupNeverFails ==
    ~(absm_panicked /\ absm_step.op = "update" /\ absm_step.sync_calls = 1)

\* The desired_position messages pending for a view.
PendingPositions(view) ==
    {i \in 1 .. Len(ui.messages) :
        /\ ui.messages[i].type = "desired_position"
        /\ ui.messages[i].target = view}

\* C16: update calls sync_to_model at most once, after the queue has been
\* drained, and exactly when it processed at least one message while a
\* definition is loaded; an update with an empty queue sends no UI message.
C16_SyncOncePerUpdate ==
    (absm_step.op = "update" /\ ~absm_panicked) =>
        /\ message_queue = <<>>
        /\ absm_step.sync_calls =
              (IF absm_step.processed > 0 /\ IsSome(absm_definition)
               THEN 1 ELSE 0)
        /\ \A v \in DOMAIN DeliveredNodes :
              Cardinality(PendingPositions(v)) <= absm_step.sync_calls
        /\ absm_step.processed = 0 => absm_step.ui_sent = 0

\* Reached: an update that processed a batch of two messages and synced once.
C16_Witness ==
    /\ ~absm_panicked
    /\ absm_step.op = "update"
    /\ absm_step.processed = 2
    /\ absm_step.sync_calls = 1
    /\ absm_step.ui_sent > 0
    /\ \E v \in DOMAIN DeliveredNodes : Cardinality(PendingPositions(v)) = 1

IsClear(i) == absm_log[i].message.type = "ClearCommandStack"

\* C18: processing ClearCommandStack leaves the definition unchanged, and
\* after it every Undo and Redo leaves the definition unchanged until a new
\* DoCommand is processed.
C18_ClearLeavesDefinition ==
    \A i \in 1 .. Len(absm_log) :
        IsClear(i) =>
            /\ absm_log[i].after = absm_log[i].before
            /\ \A j \in (i + 1) .. Len(absm_log) :
                  ((IsUndo(j) \/ IsRedo(j))
                       /\ \A k \in (i + 1) .. j : ~IsDo(k)) =>
                      absm_log[j].after = absm_log[j].before

\* Reached: a command that changed the definition was done, the stack was
\* cleared, and then an Undo and a Redo were processed.
C18_Witness ==
    /\ Len(absm_log) = 4
    /\ IsDo(1) /\ IsClear(2) /\ IsUndo(3) /\ IsRedo(4)
    /\ absm_log[1].after # absm_log[1].before
    /\ absm_log[4].after = absm_log[1].after

\* The DoCommand that pushed the command the Undo of log entry i reverted.
PusherOf(i) ==
    CHOOSE j \in 1 .. (i - 1) :
        /\ IsDo(j) /\ absm_log[j].top_after = absm_log[i].top_before
        /\ \A k \in (j + 1) .. (i - 1) :
              ~(IsDo(k) /\ absm_log[k].top_after = absm_log[i].top_before)

\* The last update synced the views after its batch had ended with the Undo
\* of a drag group.
SyncedAfterUndoOfDrag ==
    /\ ~absm_panicked
    /\ absm_step.op = "update"
    /\ absm_step.processed >= 1
    /\ absm_step.sync_calls = 1
    /\ IsUndo(Len(absm_log))
    /\ absm_log[Len(absm_log)].target.type = "CommandGroup"

\* C20: every sync_to_model sends each remaining state view one
\* desired_position message holding the position of its state definition;
\* hence once the Undo of a drag group has been processed and synced, the
\* desired position of each moved view is the position its state had before
\* the drag was done.
C20_SyncSendsModelPositions ==
    /\ (absm_step.op = "update" /\ absm_step.sync_calls = 1 /\ ~absm_panicked) =>
          \A v \in DeliveredStateViews :
              /\ PendingPositions(v) # {}
              /\ \A i \in PendingPositions(v) :
                    ui.messages[i].position =
                        Unwrap(absm_definition).states
                            .records[DeliveredNodes[v].model_handle].position
    /\ SyncedAfterUndoOfDrag =>
          LET undo == Len(absm_log)
              before == Unwrap(absm_log[PusherOf(undo)].before)
              group == absm_log[undo].target
          IN \A j \in 1 .. Len(group.commands) :
                \A v \in DeliveredStateViews :
                    DeliveredNodes[v].model_handle = group.commands[j].node =>
                        DeliveredNodes[v].position =
                            before.states[group.commands[j].node].position

\* C17: while no definition is loaded, do_command, undo_command,
\* redo_command and clear_command_stack each return false and leave the
\* command stack as it was, and an update that processed only such messages
\* does not call sync_to_model.
C17_NoDefinitionNoEffect ==
    absm_definition = None =>
        /\ command_stack = NewCommandStack
        /\ \A i \in 1 .. Len(absm_log) :
              /\ ~absm_log[i].result
              /\ absm_log[i].before = None /\ absm_log[i].after = None
              /\ absm_log[i].top_after = absm_log[i].top_before
        /\ absm_step.op = "update" =>
              absm_step.sync_calls = 0 /\ absm_step.ui_sent = 0

\* Reached: with no definition loaded, one update processed a DoCommand, an
\* Undo, a Redo and a ClearCommandStack.
C17_Witness ==
    /\ absm_definition = None
    /\ ~absm_panicked
    /\ absm_step.op = "update"
    /\ absm_step.processed = 4
    /\ IsDo(1) /\ IsUndo(2) /\ IsRedo(3) /\ IsClear(4)

\* The name messages pending for a view.
PendingNames(view) ==
    {i \in 1 .. Len(ui.messages) :
        ui.messages[i].type = "name" /\ ui.messages[i].target = view}

MaxCurveEvents == 4
\* Number of those events that are not a press, a move or a release of the
\* mouse.
MaxOtherEvents == 1
\* The largest numerator and denominator of a tangent whose handle is placed.
MaxTangentTerm == 1000
\* The host feeds an event only while fewer messages than this are pending.
MaxCurveQueue == 1

\* key_size and handle_radius of CurveEditorBuilder::build.
key_size == 7
handle_radius == 30
\* The bound of the tangent's clamp, 10e6.
MaxTangent == 10000000
\* 1 / f32::EPSILON, f32::EPSILON being 2^-23.
InverseEpsilon == 8388608

\* ------------------------------------------------------------------ f32
\* An f32 is the exact fraction <<n, d>> in lowest terms with d > 0: the
\* arithmetic of the editor is modelled without rounding, and without
\* infinities and NaN.

RECURSIVE Gcd(_, _)
Gcd(a, b) == IF b = 0 THEN a ELSE Gcd(b, a % b)

Abs(a) == IF a < 0 THEN -a ELSE a

Frac(n, d) ==
    LET Reduce(g, s) == <<(s * n) \div g, (s * d) \div g>>
    IN Reduce(Gcd(Abs(n), Abs(d)), IF d < 0 THEN -1 ELSE 1)

F(n) == <<n, 1>>
FAdd(a, b) == Frac(a[1] * b[2] + b[1] * a[2], a[2] * b[2])
FSub(a, b) == Frac(a[1] * b[2] - b[1] * a[2], a[2] * b[2])
FMul(a, b) == Frac(a[1] * b[1], a[2] * b[2])
FDiv(a, b) == Frac(a[1] * b[2], a[2] * b[1])
FNeg(a) == <<-a[1], a[2]>>
FLt(a, b) == a[1] * b[2] < b[1] * a[2]
FLe(a, b) == a[1] * b[2] <= b[1] * a[2]
\* The whole part of |a|.
Whole(a) == Abs(a[1]) \div a[2]

\* -------------------------------------------------------------- Vector2

Vector2(x, y) == [x |-> x, y |-> y]
VZero == Vector2(F(0), F(0))
VAdd(a, b) == Vector2(FAdd(a.x, b.x), FAdd(a.y, b.y))
VSub(a, b) == Vector2(FSub(a.x, b.x), FSub(a.y, b.y))
VScale(a, k) == Vector2(FMul(a.x, k), FMul(a.y, k))
\* The square of Vector2::norm.
NormSquared(a) == FAdd(FMul(a.x, a.x), FMul(a.y, a.y))

\* -------------------------------------------------------------- Matrix3
\* Every matrix of the editor is a scaling followed by a translation, or
\* the zero matrix: [sx 0 tx; 0 sy ty; 0 0 1] is kept as sx, sy, tx, ty.

Matrix3(sx, sy, tx, ty) == [sx |-> sx, sy |-> sy, tx |-> tx, ty |-> ty]

\* Matrix3::default(), the zero matrix.
MatrixDefault == Matrix3(F(0), F(0), F(0), F(0))

new_translation(v) == Matrix3(F(1), F(1), v.x, v.y)

new_nonuniform_scaling(s) == Matrix3(s.x, s.y, F(0), F(0))

new_nonuniform_scaling_wrt_point(s, pt) ==
    Matrix3(s.x, s.y,
            FSub(pt.x, FMul(pt.x, s.x)), FSub(pt.y, FMul(pt.y, s.y)))

\* a * b: b is applied first.
MatMul(a, b) ==
    Matrix3(FMul(a.sx, b.sx), FMul(a.sy, b.sy),
            FAdd(FMul(a.sx, b.tx), a.tx), FAdd(FMul(a.sy, b.ty), a.ty))

try_inverse(m) ==
    IF m.sx = F(0) \/ m.sy = F(0) THEN None
    ELSE Some(Matrix3(FDiv(F(1), m.sx), FDiv(F(1), m.sy),
                      FNeg(FDiv(m.tx, m.sx)), FNeg(FDiv(m.ty, m.sy))))

unwrap_or_default(o) == IF IsSome(o) THEN Unwrap(o) ELSE MatrixDefault

transform_point(m, p) ==
    Vector2(FAdd(FMul(m.sx, p.x), m.tx), FAdd(FMul(m.sy, p.y), m.ty))

\* Rect<f32>: the screen bounds of the widget.
Rect(x, y, w, h) == [position |-> Vector2(x, y), w |-> w, h |-> h]

RectContains(r, pt) ==
    /\ FLe(r.position.x, pt.x) /\ FLe(pt.x, FAdd(r.position.x, r.w))
    /\ FLe(r.position.y, pt.y) /\ FLe(pt.y, FAdd(r.position.y, r.h))

\* ----------------------------------------------------------- curve keys

KindConstant ==
    [type |-> "Constant", left_tangent |-> F(0), right_tangent |-> F(0)]
KindLinear ==
    [type |-> "Linear", left_tangent |-> F(0), right_tangent |-> F(0)]
KindCubic(left_tangent, right_tangent) ==
    [type |-> "Cubic", left_tangent |-> left_tangent,
     right_tangent |-> right_tangent]

\* CurveKey of the core: a key of a Curve.
CurveKey(location, value, kind) ==
    [location |-> location, value |-> value, kind |-> kind]

\* CurveKeyView of the widget.
CurveKeyView(position, kind) == [position |-> position, kind |-> kind]

\* impl From<&CurveKey> for CurveKeyView.
CurveKeyViewFrom(key) ==
    CurveKeyView(Vector2(key.location, key.value), key.kind)

\* The stable order of the numbers xs: the indices of xs[1 .. i - 1] are in
\* order already, i goes behind every index that is not greater.
RECURSIVE StableOrder(_, _, _)
StableOrder(xs, i, order) ==
    IF i > Len(xs) THEN order
    ELSE StableOrder(xs, i + 1,
             SelectSeq(order, LAMBDA j : FLe(xs[j], xs[i])) \o <<i>>
             \o SelectSeq(order, LAMBDA j : FLt(xs[i], xs[j])))

Reorder(s, order) == [i \in 1 .. Len(s) |-> s[order[i]]]

\* impl From<Vec<CurveKey>> for Curve: the keys sorted by location.
CurveFrom(curve_keys) ==
    Reorder(curve_keys,
            StableOrder([i \in 1 .. Len(curve_keys) |-> curve_keys[i].location],
                        1, <<>>))

\* ------------------------------------------------------------- messages
\* One record shape for every UI message the editor meets.

BaseMessage ==
    [type |-> "", destination |-> "editor", direction |-> "ToWidget",
     pos |-> VZero, button |-> "", left |-> FALSE, control |-> FALSE,
     amount |-> 0, key |-> "", curve |-> <<>>, zoom |-> F(1),
     kind |-> KindLinear, enabled |-> FALSE]

KeyUpMsg(key) == [BaseMessage EXCEPT !.type = "KeyUp", !.key = key]
MouseMoveMsg(pos, left) ==
    [BaseMessage EXCEPT !.type = "MouseMove", !.pos = pos, !.left = left]
MouseUpMsg(button) == [BaseMessage EXCEPT !.type = "MouseUp", !.button = button]
MouseDownMsg(pos, button, control) ==
    [BaseMessage EXCEPT !.type = "MouseDown", !.pos = pos, !.button = button,
                        !.control = control]
MouseWheelMsg(amount) ==
    [BaseMessage EXCEPT !.type = "MouseWheel", !.amount = amount]
EnabledMsg(destination, enabled) ==
    [BaseMessage EXCEPT !.type = "Enabled", !.destination = destination,
                        !.enabled = enabled]
ClickMsg(destination, pos) ==
    [BaseMessage EXCEPT !.type = "Click", !.destination = destination,
                        !.pos = pos]
SyncMsg(destination, direction, curve) ==
    [BaseMessage EXCEPT !.type = "Sync", !.destination = destination,
                        !.direction = direction, !.curve = curve]
ViewPositionMsg(destination, direction, view) ==
    [BaseMessage EXCEPT !.type = "ViewPosition", !.destination = destination,
                        !.direction = direction, !.pos = view]
ZoomMsg(destination, direction, z) ==
    [BaseMessage EXCEPT !.type = "Zoom", !.destination = destination,
                        !.direction = direction, !.zoom = z]
RemoveSelectionMsg(destination, direction) ==
    [BaseMessage EXCEPT !.type = "RemoveSelection",
                        !.destination = destination, !.direction = direction]
ChangeSelectedKeysKindMsg(destination, direction, kind) ==
    [BaseMessage EXCEPT !.type = "ChangeSelectedKeysKind",
                        !.destination = destination, !.direction = direction,
                        !.kind = kind]
AddKeyMsg(destination, direction, screen_pos) ==
    [BaseMessage EXCEPT !.type = "AddKey", !.destination = destination,
                        !.direction = direction, !.pos = screen_pos]

CurveEditorMessageTypes ==
    {"Sync", "ViewPosition", "Zoom", "RemoveSelection",
     "ChangeSelectedKeysKind", "AddKey"}

\* ---------------------------------------------------- selection, context
\* A key index of the model is the index of the code plus one.

KeysSelection(indices) == [type |-> "Keys", keys |-> indices, key |-> 0]
LeftTangentSelection(index) == [type |-> "LeftTangent", keys |-> {}, key |-> index]
RightTangentSelection(index) == [type |-> "RightTangent", keys |-> {}, key |-> index]
single_key(index) == KeysSelection({index})

DragEntry(index, initial_position) ==
    [key |-> index, initial_position |-> initial_position]

BaseContext ==
    [type |-> "", initial_mouse_pos |-> VZero, entries |-> {},
     initial_view_pos |-> VZero, key |-> 0, left |-> FALSE]
DragKeysContext(initial_mouse_pos, entries) ==
    [BaseContext EXCEPT !.type = "DragKeys",
                        !.initial_mouse_pos = initial_mouse_pos,
                        !.entries = entries]
MoveViewContext(initial_mouse_pos, initial_view_pos) ==
    [BaseContext EXCEPT !.type = "MoveView",
                        !.initial_mouse_pos = initial_mouse_pos,
                        !.initial_view_pos = initial_view_pos]
DragTangentContext(index, left) ==
    [BaseContext EXCEPT !.type = "DragTangent", !.key = index, !.left = left]

PickResult(type, index) == [type |-> type, key |-> index]

\* ------------------------------------------------------------ transforms

\* update_matrices with the widget's screen bounds; actual_size is the size
\* of the bounds.
update_matrices(ed, screen_bounds) ==
    LET vp == Vector2(ed.view_position.x, FNeg(ed.view_position.y))
        half == VScale(Vector2(screen_bounds.w, screen_bounds.h), <<1, 2>>)
        Set(view) ==
            [ed EXCEPT
                !.view_matrix = view,
                !.screen_matrix =
                    MatMul(MatMul(MatMul(
                        new_translation(screen_bounds.position),
                        new_translation(Vector2(F(0), screen_bounds.h))),
                        new_nonuniform_scaling(Vector2(F(1), F(-1)))),
                        view),
                !.inv_screen_matrix = unwrap_or_default(try_inverse(view))]
    IN Set(MatMul(new_nonuniform_scaling_wrt_point(
                      Vector2(ed.zoom, ed.zoom), half),
                  new_translation(vp)))

point_to_screen_space(ed, point) == transform_point(ed.screen_matrix, point)

point_to_local_space(ed, point) == transform_point(ed.inv_screen_matrix, point)

\* The result of a handler: the editor, the messages it sent, ok FALSE when
\* it panicked, exact FALSE when it met a number the model does not have.
H(ed, sent, ok) == [ed |-> ed, sent |-> sent, ok |-> ok, exact |-> TRUE]

sort_keys(ed) ==
    [ed EXCEPT !.keys =
        Reorder(@, StableOrder([i \in 1 .. Len(@) |-> @[i].position.x],
                               1, <<>>))]

set_selection(ed, new_selection) ==
    H([ed EXCEPT !.selection = new_selection],
      <<EnabledMsg("context_menu.remove", IsSome(new_selection)),
        EnabledMsg("context_menu.key", IsSome(new_selection))>>,
      TRUE)

\* send_curve with the x and y of the keys exchanged.
send_curve_transposed(ed) ==
    SyncMsg("editor", "FromWidget",
        CurveFrom([i \in 1 .. Len(ed.keys) |->
                      CurveKey(ed.keys[i].position.y, ed.keys[i].position.x,
                               ed.keys[i].kind)]))

\* send_curve: the message it sends.
send_curve(ed) ==
    SyncMsg("editor", "FromWidget",
        CurveFrom([i \in 1 .. Len(ed.keys) |->
                      CurveKey(ed.keys[i].position.x, ed.keys[i].position.y,
                               ed.keys[i].kind)]))

remove_selection(ed) ==
    IF IsSome(ed.selection) /\ Unwrap(ed.selection).type = "Keys"
    THEN LET new_keys ==
                 SelectSeq([i \in 1 .. Len(ed.keys) |->
                               [index |-> i, key |-> ed.keys[i]]],
                           LAMBDA e : e.index \notin Unwrap(ed.selection).keys)
             Removed(r) == H(r.ed, Append(r.sent, send_curve(r.ed)), TRUE)
         IN Removed(set_selection(
                [ed EXCEPT !.keys = [i \in 1 .. Len(new_keys) |->
                                        new_keys[i].key]],
                None))
    ELSE H(ed, <<>>, TRUE)

\* change_selected_keys_kind: indexing keys with a selected index that is
\* out of range panics.
change_selected_keys_kind(ed, kind) ==
    IF IsSome(ed.selection) /\ Unwrap(ed.selection).type = "Keys"
    THEN IF \E k \in Unwrap(ed.selection).keys : k > Len(ed.keys)
         THEN H(ed, <<>>, FALSE)
         ELSE LET Changed(e) == H(e, <<send_curve(e)>>, TRUE)
              IN Changed([ed EXCEPT !.keys =
                     [i \in 1 .. Len(@) |->
                         IF i \in Unwrap(ed.selection).keys
                         THEN [@[i] EXCEPT !.kind = kind]
                         ELSE @[i]]])
    ELSE H(ed, <<>>, TRUE)

\* ------------------------------------------------------ tangent handles
\* An angle is kept as its direction (cos, sin).  The direction of
\* atan(tangent) is exact when 1 + tangent^2 is the square of a fraction;
\* at the bounds of the clamp it is taken as straight up or down.

IsClamped(tangent) == tangent[2] = 1 /\ Abs(tangent[1]) = MaxTangent

Hypot(tangent) ==
    CHOOSE h \in 1 .. (Abs(tangent[1]) + tangent[2]) :
        h * h = tangent[1] * tangent[1] + tangent[2] * tangent[2]

\* The tangents whose handle the model can place.
IsExactTangent(tangent) ==
    \/ IsClamped(tangent)
    \/ /\ Abs(tangent[1]) <= MaxTangentTerm
       /\ tangent[2] <= MaxTangentTerm
       /\ \E h \in 1 .. (Abs(tangent[1]) + tangent[2]) :
              h * h = tangent[1] * tangent[1] + tangent[2] * tangent[2]

\* wrap_angle(tangent.atan()) as a direction.
AtanDirection(tangent) ==
    IF IsClamped(tangent)
    THEN Vector2(F(0), F(IF tangent[1] < 0 THEN -1 ELSE 1))
    ELSE LET Unit(h) == Vector2(Frac(tangent[2], h), Frac(tangent[1], h))
         IN Unit(Hypot(tangent))

\* angle + PI.
PlusPi(direction) == Vector2(FNeg(direction.x), FNeg(direction.y))

tangent_screen_position(ed, direction, key_position) ==
    VAdd(point_to_screen_space(ed, key_position),
         VScale(Vector2(direction.x, FNeg(direction.y)), F(handle_radius)))

\* (handle - pos).norm() <= key_size * 0.5, compared as squares.
HitsHandle(handle_pos, pos) ==
    FLe(NormSquared(VSub(handle_pos, pos)),
        <<key_size * key_size, 4>>)

\* PickFrom testing the tangent handles of a key of any kind.
RECURSIVE PickFromAnyKind(_, _, _)
PickFromAnyKind(ed, pos, i) ==
    IF i > Len(ed.keys) THEN None
    ELSE LET key == ed.keys[i]
             Bounds(screen_pos) ==
                 [position |->
                      Vector2(FSub(screen_pos.x, <<key_size, 2>>),
                              FSub(screen_pos.y, <<key_size, 2>>)),
                  w |-> F(key_size), h |-> F(key_size)]
         IN IF RectContains(Bounds(point_to_screen_space(ed, key.position)),
                            pos)
            THEN Some(PickResult("Key", i))
            ELSE IF HitsHandle(tangent_screen_position(ed,
                           PlusPi(AtanDirection(key.kind.left_tangent)),
                           key.position), pos)
            THEN Some(PickResult("LeftTangent", i))
            ELSE IF HitsHandle(tangent_screen_position(ed,
                           AtanDirection(key.kind.right_tangent),
                           key.position), pos)
            THEN Some(PickResult("RightTangent", i))
            ELSE PickFromAnyKind(ed, pos, i + 1)

\* pick, from the key at index i on.
RECURSIVE PickFrom(_, _, _)
PickFrom(ed, pos, i) ==
    IF i > Len(ed.keys) THEN None
    ELSE LET key == ed.keys[i]
             Bounds(screen_pos) ==
                 [position |->
                      Vector2(FSub(screen_pos.x, <<key_size, 2>>),
                              FSub(screen_pos.y, <<key_size, 2>>)),
                  w |-> F(key_size), h |-> F(key_size)]
         IN IF RectContains(Bounds(point_to_screen_space(ed, key.position)),
                            pos)
            THEN Some(PickResult("Key", i))
            ELSE IF key.kind.type = "Cubic"
                    /\ HitsHandle(tangent_screen_position(ed,
                           PlusPi(AtanDirection(key.kind.left_tangent)),
                           key.position), pos)
            THEN Some(PickResult("LeftTangent", i))
            ELSE IF key.kind.type = "Cubic"
                    /\ HitsHandle(tangent_screen_position(ed,
                           AtanDirection(key.kind.right_tangent),
                           key.position), pos)
            THEN Some(PickResult("RightTangent", i))
            ELSE PickFrom(ed, pos, i + 1)

pick(ed, pos) == PickFrom(ed, pos, 1)

\* -------------------------------------------- handle_routed_message arms

\* MouseMove with DragKeys in progress.
DragKeysTo(ed, context, local_mouse_pos) ==
    IF \E e \in context.entries : e.key > Len(ed.keys)
    THEN H(ed, <<>>, FALSE)
    ELSE LET Moved(local_delta) ==
                 H([ed EXCEPT !.keys =
                       [i \in 1 .. Len(@) |->
                           IF \E e \in context.entries : e.key = i
                           THEN [@[i] EXCEPT !.position =
                                    VAdd((CHOOSE e \in context.entries :
                                              e.key = i).initial_position,
                                         local_delta)]
                           ELSE @[i]]],
                   <<>>, TRUE)
             Flipped(d) == Moved(Vector2(d.x, FNeg(d.y)))
         IN Flipped(VSub(local_mouse_pos, context.initial_mouse_pos))

\* MouseMove with MoveView in progress.
MoveViewTo(ed, context, pos) ==
    H([ed EXCEPT !.view_position =
          VAdd(context.initial_view_pos,
               VScale(VSub(pos, context.initial_mouse_pos),
                      FDiv(F(1), ed.zoom)))],
      <<>>, TRUE)

\* x < f32::EPSILON.
BelowEpsilon(x) == x[1] <= (x[2] - 1) \div InverseEpsilon

\* a.clamp(-10e6, 10e6).
ClampTangent(a) ==
    IF Whole(a) >= MaxTangent
    THEN F(IF a[1] < 0 THEN -MaxTangent ELSE MaxTangent)
    ELSE a

\* The tangent of a drag: -local_delta.y / local_delta.x clamped, with
\* local_delta.x kept on the handle's side: x.min(EPSILON) for the left
\* handle, x.max(EPSILON) for the right one.  None is a tangent the model
\* does not have: 0 / 0, which is NaN, and -y / EPSILON for a y under 2
\* that is not 0.
DraggedTangent(local_delta, left) ==
    IF left = BelowEpsilon(local_delta.x)
    THEN \* local_delta.x is on the handle's side and stays
         IF local_delta.x = F(0)
         THEN IF local_delta.y = F(0) THEN None
              ELSE Some(F(IF FLt(local_delta.y, F(0))
                          THEN MaxTangent ELSE -MaxTangent))
         ELSE IF BelowEpsilon(local_delta.x)
                 /\ BelowEpsilon(FNeg(local_delta.x))
         THEN None
         ELSE Some(ClampTangent(FDiv(FNeg(local_delta.y), local_delta.x)))
    ELSE \* local_delta.x becomes EPSILON
         IF local_delta.y = F(0) THEN Some(F(0))
         ELSE IF Whole(local_delta.y) >= 2
         THEN Some(F(IF FLt(local_delta.y, F(0))
                     THEN MaxTangent ELSE -MaxTangent))
         ELSE None

\* MouseMove with DragTangent in progress: a key index out of range and a
\* key that is not Cubic (unreachable!) panic.
DragTangentTo(ed, context, pos) ==
    IF context.key > Len(ed.keys) THEN H(ed, <<>>, FALSE)
    ELSE IF ed.keys[context.key].kind.type # "Cubic" THEN H(ed, <<>>, FALSE)
    ELSE LET Apply(tangent) ==
                 IF IsSome(tangent) /\ IsExactTangent(Unwrap(tangent))
                 THEN H([ed EXCEPT !.keys[context.key].kind =
                            IF context.left
                            THEN [@ EXCEPT !.left_tangent = Unwrap(tangent)]
                            ELSE [@ EXCEPT !.right_tangent = Unwrap(tangent)]],
                        <<>>, TRUE)
                 ELSE [H(ed, <<>>, TRUE) EXCEPT !.exact = FALSE]
         IN Apply(DraggedTangent(
                VSub(pos, point_to_screen_space(ed,
                              ed.keys[context.key].position)),
                context.left))

\* MouseMove with no operation in progress: a pressed left button starts
\* the operation of the selection.
StartOperation(ed, local_mouse_pos) ==
    LET selected == Unwrap(ed.selection)
    IN CASE selected.type = "Keys" ->
              IF \E k \in selected.keys : k > Len(ed.keys)
              THEN H(ed, <<>>, FALSE)
              ELSE H([ed EXCEPT !.operation_context =
                         Some(DragKeysContext(local_mouse_pos,
                                  {DragEntry(k, ed.keys[k].position) :
                                       k \in selected.keys}))],
                     <<>>, TRUE)
         [] selected.type = "LeftTangent" ->
              H([ed EXCEPT !.operation_context =
                    Some(DragTangentContext(selected.key, TRUE))],
                <<>>, TRUE)
         [] OTHER ->
              H([ed EXCEPT !.operation_context =
                    Some(DragTangentContext(selected.key, FALSE))],
                <<>>, TRUE)

OnMouseMove(ed, pos, left) ==
    IF IsSome(ed.operation_context)
    THEN LET context == Unwrap(ed.operation_context)
         IN CASE context.type = "DragKeys" ->
                   DragKeysTo(ed, context, point_to_local_space(ed, pos))
              [] context.type = "MoveView" -> MoveViewTo(ed, context, pos)
              [] OTHER -> DragTangentTo(ed, context, pos)
    ELSE IF IsSome(ed.selection) /\ left
    THEN StartOperation(ed, point_to_local_space(ed, pos))
    ELSE H(ed, <<>>, TRUE)

\* MouseUp with the curve sent back whatever the operation was.
OnMouseUpAlwaysSends(ed) ==
    IF IsSome(ed.operation_context)
    THEN H([ed EXCEPT !.operation_context = None], <<send_curve(ed)>>, TRUE)
    ELSE H(ed, <<>>, TRUE)

OnMouseUp(ed) ==
    IF IsSome(ed.operation_context)
    THEN H([ed EXCEPT !.operation_context = None],
           IF Unwrap(ed.operation_context).type \in {"DragKeys", "DragTangent"}
           THEN <<send_curve(ed)>>
           ELSE <<>>,
           TRUE)
    ELSE H(ed, <<>>, TRUE)

\* MouseDown of the left button on what pick found.
LeftDown(ed, pick_result, control) ==
    IF IsSome(pick_result)
    THEN LET picked == Unwrap(pick_result)
         IN CASE picked.type = "Key" ->
                   IF IsSome(ed.selection) /\ Unwrap(ed.selection).type = "Keys"
                   THEN IF control
                        THEN H([ed EXCEPT !.selection =
                                   Some(KeysSelection(Unwrap(@).keys
                                                      \cup {picked.key}))],
                               <<>>, TRUE)
                        ELSE IF picked.key \notin Unwrap(ed.selection).keys
                        THEN set_selection(ed, Some(single_key(picked.key)))
                        ELSE H(ed, <<>>, TRUE)
                   ELSE set_selection(ed, Some(single_key(picked.key)))
              [] picked.type = "LeftTangent" ->
                   set_selection(ed, Some(LeftTangentSelection(picked.key)))
              [] OTHER ->
                   set_selection(ed, Some(RightTangentSelection(picked.key)))
    ELSE set_selection(ed, None)

OnMouseDown(ed, pos, button, control) ==
    CASE button = "Left" -> LeftDown(ed, pick(ed, pos), control)
      [] button = "Middle" ->
           H([ed EXCEPT !.operation_context =
                 Some(MoveViewContext(pos, ed.view_position))],
             <<>>, TRUE)
      [] OTHER -> H(ed, <<>>, TRUE)

OnMouseWheel(ed, amount) ==
    H(ed,
      <<ZoomMsg("editor", "ToWidget",
                FMul(ed.zoom, IF amount < 0 THEN <<9, 10>> ELSE <<11, 10>>))>>,
      TRUE)

\* A CurveEditorMessage for the editor with direction ToWidget.
OnCurveEditorMessage(ed, message) ==
    CASE message.type = "Sync" ->
           H([ed EXCEPT !.keys = [i \in 1 .. Len(message.curve) |->
                                     CurveKeyViewFrom(message.curve[i])]],
             <<>>, TRUE)
      [] message.type = "ViewPosition" ->
           H([ed EXCEPT !.view_position = message.pos], <<>>, TRUE)
      [] message.type = "Zoom" -> H([ed EXCEPT !.zoom = message.zoom], <<>>, TRUE)
      [] message.type = "RemoveSelection" -> remove_selection(ed)
      [] message.type = "ChangeSelectedKeysKind" ->
           change_selected_keys_kind(ed, message.kind)
      [] OTHER ->
           LET Sorted(r) == H(sort_keys(r.ed), r.sent, TRUE)
           IN Sorted(set_selection(
                  [ed EXCEPT !.keys =
                      Append(@, CurveKeyView(
                                    point_to_local_space(ed, message.pos),
                                    KindLinear))],
                  None))

\* handle_routed_message that takes every CurveEditorMessage for its own,
\* whatever its destination and direction.
handle_routed_message_any_route(ed, message) ==
    IF message.type \in CurveEditorMessageTypes
    THEN OnCurveEditorMessage(ed, message)
    ELSE IF message.destination # "editor" THEN H(ed, <<>>, TRUE)
    ELSE CASE message.type = "KeyUp" ->
                IF message.key = "Delete" THEN remove_selection(ed)
                ELSE H(ed, <<>>, TRUE)
           [] message.type = "MouseMove" ->
                OnMouseMove(ed, message.pos, message.left)
           [] message.type = "MouseUp" -> OnMouseUp(ed)
           [] message.type = "MouseDown" ->
                OnMouseDown(ed, message.pos, message.button, message.control)
           [] message.type = "MouseWheel" -> OnMouseWheel(ed, message.amount)
           [] OTHER -> H(ed, <<>>, TRUE)

handle_routed_message(ed, message) ==
    IF message.destination # "editor" THEN H(ed, <<>>, TRUE)
    ELSE CASE message.type = "KeyUp" ->
                IF message.key = "Delete" THEN remove_selection(ed)
                ELSE H(ed, <<>>, TRUE)
           [] message.type = "MouseMove" ->
                OnMouseMove(ed, message.pos, message.left)
           [] message.type = "MouseUp" -> OnMouseUp(ed)
           [] message.type = "MouseDown" ->
                OnMouseDown(ed, message.pos, message.button, message.control)
           [] message.type = "MouseWheel" -> OnMouseWheel(ed, message.amount)
           [] message.type \in CurveEditorMessageTypes
              /\ message.destination = "editor"
              /\ message.direction = "ToWidget" ->
                OnCurveEditorMessage(ed, message)
           [] OTHER -> H(ed, <<>>, TRUE)

\* preview_message: the messages it sends; pos of a click is the screen
\* position of the context menu.
preview_message(message) ==
    IF message.type = "Click"
    THEN CASE message.destination = "context_menu.remove" ->
                <<RemoveSelectionMsg("editor", "ToWidget")>>
           [] message.destination = "context_menu.make_constant" ->
                <<ChangeSelectedKeysKindMsg("editor", "ToWidget", KindConstant)>>
           [] message.destination = "context_menu.make_linear" ->
                <<ChangeSelectedKeysKindMsg("editor", "ToWidget", KindLinear)>>
           [] message.destination = "context_menu.make_cubic" ->
                <<ChangeSelectedKeysKindMsg("editor", "ToWidget",
                                            KindCubic(F(0), F(0)))>>
           [] message.destination = "context_menu.add_key" ->
                <<AddKeyMsg("editor", "ToWidget", message.pos)>>
           [] OTHER -> <<>>
    ELSE <<>>

\* One message of the queue: previewed, then routed.
Route(ed, message) ==
    LET Previewed(r) ==
            [r EXCEPT !.sent = preview_message(message) \o @]
    IN Previewed(handle_routed_message(ed, message))

\* ------------------------------------------------------------ the widget

\* The CurveEditor as one value.
Editor ==
    [keys |-> keys, zoom |-> zoom, view_position |-> view_position,
     view_matrix |-> view_matrix, screen_matrix |-> screen_matrix,
     inv_screen_matrix |-> inv_screen_matrix,
     operation_context |-> operation_context, selection |-> selection]

SetEditor(ed) ==
    /\ keys' = ed.keys
    /\ zoom' = ed.zoom
    /\ view_position' = ed.view_position
    /\ view_matrix' = ed.view_matrix
    /\ screen_matrix' = ed.screen_matrix
    /\ inv_screen_matrix' = ed.inv_screen_matrix
    /\ operation_context' = ed.operation_context
    /\ selection' = ed.selection

\* What the last step of the widget was: the message it handled (its type,
\* destination and direction), the operation in progress before it, the
\* messages it sent.
CurveStep(op, context, sent, message) ==
    [op |-> op, context |-> context, sent |-> sent,
     destination |-> message.destination, direction |-> message.direction]

ContextType(ed) ==
    IF IsSome(ed.operation_context)
    THEN Unwrap(ed.operation_context).type
    ELSE "None"

\* The curves of the user: a Curve keeps its keys sorted by location.
Curves ==
    {<<>>,
     <<CurveKey(F(10), F(10), KindLinear),
       CurveKey(F(50), F(30), KindCubic(<<3, 4>>, F(0)))>>,
     <<CurveKey(F(10), F(10), KindCubic(<<3, 4>>, F(0))),
       CurveKey(F(10), F(40), KindConstant)>>}

\* The screen bounds a layout pass gives the widget.
ScreenBounds == {Rect(F(20), F(10), F(100), F(60))}

\* A screen position away from every key.
FarPoint == Vector2(F(90), F(5))

\* Where the handles of a Cubic key of Curves are drawn, from the key: the
\* right one of tangent 0 and the left one of tangent 3/4.
HandleOffsets == {Vector2(F(30), F(0)), Vector2(F(-24), F(18))}

\* The positions of the mouse: on a key as it was last drawn, around a
\* Cubic key, or away from every key.
KeyPositions ==
    {point_to_screen_space(Editor, keys[i].position) : i \in 1 .. Len(keys)}

MousePositions ==
    {FarPoint}
    \cup KeyPositions
    \cup {VAdd(point_to_screen_space(Editor, keys[i].position), o) :
              i \in {j \in 1 .. Len(keys) : keys[j].kind.type = "Cubic"},
              o \in HandleOffsets}

\* The matrices are those of the last update_matrices.
MatricesAreCurrent == Editor = update_matrices(Editor, ce_bounds)

\* Control::draw, as far as it changes the widget: update_matrices.  A draw
\* that finds the matrices current changes nothing.
Draw ==
    /\ ~ce_panicked
    /\ ~MatricesAreCurrent
    /\ SetEditor(update_matrices(Editor, ce_bounds))
    /\ UNCHANGED <<ce_bounds, ce_queue, ce_buttons, ce_panicked, ce_events,
                   ce_others, ce_synced, ce_step>>
    /\ CurveOnly

\* UserInterface::poll_message: the first message of the queue is previewed
\* and routed to the widget; what the widget sends joins the queue.
Deliver ==
    /\ ~ce_panicked
    /\ ce_queue # <<>>
    /\ \E message \in {Head(ce_queue)} :
       \E r \in {Route(Editor, message)} :
          /\ r.exact
          /\ SetEditor(IF r.ok THEN r.ed ELSE Editor)
          /\ ce_queue' = IF r.ok THEN Tail(ce_queue) \o r.sent
                         ELSE Tail(ce_queue)
          /\ ce_panicked' = ~r.ok
          /\ ce_synced' =
                IF ~r.ok THEN ce_synced
                ELSE IF message.type = "Sync" /\ message.destination = "editor"
                        /\ message.direction = "ToWidget"
                THEN Some(message.curve)
                ELSE IF r.ed.keys # keys THEN None
                ELSE ce_synced
          /\ ce_step' = CurveStep(IF r.ok THEN message.type ELSE "panic",
                                  ContextType(Editor),
                                  IF r.ok THEN r.sent ELSE <<>>, message)
    /\ UNCHANGED <<ce_bounds, ce_buttons, ce_events, ce_others>>
    /\ CurveOnly

\* The host puts a message into the queue.
Feed(message) ==
    /\ ~ce_panicked
    /\ ce_events < MaxCurveEvents
    /\ Len(ce_queue) < MaxCurveQueue
    /\ ce_queue' = Append(ce_queue, message)
    /\ ce_events' = ce_events + 1
    /\ UNCHANGED <<keys, zoom, view_position, view_matrix, screen_matrix,
                   inv_screen_matrix, operation_context, selection,
                   ce_bounds, ce_panicked, ce_synced, ce_step>>
    /\ CurveOnly

\* An event of the mouse buttons or of its position.
FeedMouse(message) ==
    /\ Feed(message)
    /\ UNCHANGED ce_others

\* Any other event.
FeedOther(message) ==
    /\ ce_others < MaxOtherEvents
    /\ Feed(message)
    /\ ce_others' = ce_others + 1

OsMouseDown(pos, button, control) ==
    /\ button \notin ce_buttons
    /\ FeedMouse(MouseDownMsg(pos, button, control))
    /\ ce_buttons' = ce_buttons \cup {button}

OsMouseMove(pos) ==
    /\ FeedMouse(MouseMoveMsg(pos, "Left" \in ce_buttons))
    /\ UNCHANGED ce_buttons

OsMouseUp(button) ==
    /\ button \in ce_buttons
    /\ FeedMouse(MouseUpMsg(button))
    /\ ce_buttons' = ce_buttons \ {button}

OsMouseWheel(amount) ==
    /\ FeedOther(MouseWheelMsg(amount))
    /\ UNCHANGED ce_buttons

OsKeyUp(key) ==
    /\ FeedOther(KeyUpMsg(key))
    /\ UNCHANGED ce_buttons

\* A click on an item of the context menu, opened at pos.
MenuItemClick(item, pos) ==
    /\ FeedOther(ClickMsg(item, pos))
    /\ UNCHANGED ce_buttons

MenuItems ==
    {"context_menu.add_key", "context_menu.remove",
     "context_menu.make_constant", "context_menu.make_linear",
     "context_menu.make_cubic"}

\* The user of the widget sends it a message.
UserSend(message) ==
    /\ FeedOther(message)
    /\ UNCHANGED ce_buttons

\* The messages of the user: to the editor, and a Sync to another curve
\* editor of the same user interface.
UserMessages ==
    {SyncMsg("editor", "ToWidget", c) : c \in Curves}
    \cup {ZoomMsg("editor", "ToWidget", F(2)),
          ViewPositionMsg("editor", "ToWidget", Vector2(F(10), F(5))),
          SyncMsg("other_editor", "ToWidget", <<>>)}

\* A layout pass moves the widget.
Arrange(screen_bounds) ==
    /\ ~ce_panicked
    /\ ce_events < MaxCurveEvents
    /\ ce_others < MaxOtherEvents
    /\ screen_bounds # ce_bounds
    /\ ce_bounds' = screen_bounds
    /\ ce_events' = ce_events + 1
    /\ ce_others' = ce_others + 1
    /\ UNCHANGED <<keys, zoom, view_position, view_matrix, screen_matrix,
                   inv_screen_matrix, operation_context, selection,
                   ce_queue, ce_buttons, ce_panicked, ce_synced, ce_step>>
    /\ CurveOnly

\* CurveEditorBuilder::build, with the curve of with_curve.
CurveInit ==
    /\ keys \in {[i \in 1 .. Len(c) |-> CurveKeyViewFrom(c[i])] : c \in Curves}
    /\ zoom = F(1)
    /\ view_position = VZero
    /\ view_matrix = MatrixDefault
    /\ screen_matrix = MatrixDefault
    /\ inv_screen_matrix = MatrixDefault
    /\ operation_context = None
    /\ selection = None
    /\ ce_bounds = Rect(F(0), F(0), F(0), F(0))
    /\ ce_queue = <<>>
    /\ ce_buttons = {}
    /\ ce_panicked = FALSE
    /\ ce_events = 0
    /\ ce_others = 0
    /\ ce_synced = None
    /\ ce_step = CurveStep("new", "None", <<>>, BaseMessage)

CurveNext ==
    \/ Draw
    \/ Deliver
    \/ \E pos \in MousePositions : OsMouseDown(pos, "Left", FALSE)
    \/ \E pos \in KeyPositions : OsMouseDown(pos, "Left", TRUE)
    \/ OsMouseDown(FarPoint, "Middle", FALSE)
    \/ \E pos \in MousePositions : OsMouseMove(pos)
    \/ \E button \in {"Left", "Middle"} : OsMouseUp(button)
    \/ \E amount \in {-1, 1} : OsMouseWheel(amount)
    \/ OsKeyUp("Delete")
    \/ \E item \in MenuItems : MenuItemClick(item, FarPoint)
    \/ \E message \in UserMessages : UserSend(message)
    \/ \E screen_bounds \in ScreenBounds : Arrange(screen_bounds)

\* -------------------------------------------------- CurveEditor: claims

LocalPoints == {VZero, Vector2(F(10), F(20)), Vector2(<<-5, 2>>, F(40))}

\* C7: after update_matrices, point_to_local_space undoes
\* point_to_screen_space: taking a local point to screen space and back
\* gives the point, for every zoom, view position and screen bounds.
C7_LocalOfScreenIsIdentity ==
    MatricesAreCurrent =>
        \A p \in LocalPoints \cup {keys[i].position : i \in 1 .. Len(keys)} :
            point_to_local_space(Editor, point_to_screen_space(Editor, p)) = p

\* The Sync messages among the messages of the last step.
SentSyncs == SelectSeq(ce_step.sent, LAMBDA m : m.type = "Sync")

\* The curve holds the keys of the widget, each once, sorted by location.
IsCurveOfKeys(curve) ==
    /\ Len(curve) = Len(keys)
    /\ \A i \in 1 .. (Len(curve) - 1) :
          FLe(curve[i].location, curve[i + 1].location)
    /\ \E p \in Permutations(1 .. Len(keys)) :
          \A i \in 1 .. Len(keys) :
              /\ curve[i].location = keys[p[i]].position.x
              /\ curve[i].value = keys[p[i]].position.y
              /\ curve[i].kind = keys[p[i]].kind

\* C8: a MouseUp that ends DragKeys or DragTangent sends exactly one Sync,
\* from the widget, built from the current keys; a MouseUp that ends
\* MoveView or finds no operation in progress sends no Sync.
C8_MouseUpSendsCurveBack ==
    ce_step.op = "MouseUp" =>
        IF ce_step.context \in {"DragKeys", "DragTangent"}
        THEN /\ Len(SentSyncs) = 1
             /\ SentSyncs[1].direction = "FromWidget"
             /\ SentSyncs[1].destination = "editor"
             /\ IsCurveOfKeys(SentSyncs[1].curve)
             /\ operation_context = None
        ELSE SentSyncs = <<>>

\* Reached: a MouseUp ended a drag of a tangent of a curve with two keys.
C8_Witness ==
    /\ ce_step.op = "MouseUp"
    /\ ce_step.context = "DragTangent"
    /\ Len(SentSyncs) = 1
    /\ Len(SentSyncs[1].curve) = 2

\* C9: the curve the widget sends back after a Sync to the widget, the keys
\* not having changed in between, has the keys of the curve it received:
\* as many, with the same locations, values and kinds, in the same order.
C9_SyncRoundTrip ==
    IsSome(ce_synced) =>
        \A i \in 1 .. Len(SentSyncs) :
            SentSyncs[i].direction = "FromWidget" =>
                /\ Len(SentSyncs[i].curve) = Len(Unwrap(ce_synced))
                /\ \A k \in 1 .. Len(Unwrap(ce_synced)) :
                      /\ SentSyncs[i].curve[k].location =
                             Unwrap(ce_synced)[k].location
                      /\ SentSyncs[i].curve[k].value =
                             Unwrap(ce_synced)[k].value
                      /\ SentSyncs[i].curve[k].kind =
                             Unwrap(ce_synced)[k].kind

\* Reached: a curve of two keys at one location came back after a drag
\* that was started and ended without a move of the keys.
C9_Witness ==
    /\ IsSome(ce_synced)
    /\ Len(Unwrap(ce_synced)) = 2
    /\ Unwrap(ce_synced)[1].location = Unwrap(ce_synced)[2].location
    /\ ce_step.op = "MouseUp"
    /\ Len(SentSyncs) = 1
    /\ SentSyncs[1].direction = "FromWidget"

\* The key indices the selection holds.
SelectedIndices ==
    IF IsSome(selection)
    THEN IF Unwrap(selection).type = "Keys"
         THEN Unwrap(selection).keys
         ELSE {Unwrap(selection).key}
    ELSE {}

\* The key indices the operation in progress holds.
OperationIndices ==
    IF IsSome(operation_context)
    THEN CASE Unwrap(operation_context).type = "DragKeys" ->
                {e.key : e \in Unwrap(operation_context).entries}
           [] Unwrap(operation_context).type = "DragTangent" ->
                {Unwrap(operation_context).key}
           [] OTHER -> {}
    ELSE {}

\* C12: every key index of the selection and of the operation context is an
\* index of keys (in the code: smaller than keys.len()), so that no handler
\* indexes keys out of range.
C12_IndicesInRange ==
    \A k \in SelectedIndices \cup OperationIndices : k \in 1 .. Len(keys)

\* A MouseMove for the editor is the next message it handles.
MouseMoveIsNext ==
    /\ ~ce_panicked
    /\ ce_queue # <<>>
    /\ Head(ce_queue).type = "MouseMove"
    /\ Head(ce_queue).destination = "editor"

\* C13: whenever a MouseMove is handled while the operation is
\* DragTangent{key}, the key at that index is Cubic, so the unreachable!
\* branch is never taken.
C13_DraggedTangentIsOfCubicKey ==
    (MouseMoveIsNext /\ ContextType(Editor) = "DragTangent"
         /\ Unwrap(operation_context).key \in 1 .. Len(keys)) =>
        keys[Unwrap(operation_context).key].kind.type = "Cubic"

\* The screen position pos is in the square of side key_size around key i.
BodyHit(i, pos) ==
    LET Near(a, b) ==
            /\ FLe(FSub(a, <<key_size, 2>>), b)
            /\ FLe(b, FAdd(a, <<key_size, 2>>))
        OnKey(screen_pos) ==
            Near(screen_pos.x, pos.x) /\ Near(screen_pos.y, pos.y)
    IN OnKey(point_to_screen_space(Editor, keys[i].position))

\* pos is within key_size / 2 of the left, or right, handle of the Cubic
\* key i.
LeftHit(i, pos) ==
    /\ keys[i].kind.type = "Cubic"
    /\ HitsHandle(tangent_screen_position(Editor,
           PlusPi(AtanDirection(keys[i].kind.left_tangent)),
           keys[i].position), pos)

RightHit(i, pos) ==
    /\ keys[i].kind.type = "Cubic"
    /\ HitsHandle(tangent_screen_position(Editor,
           AtanDirection(keys[i].kind.right_tangent),
           keys[i].position), pos)

\* The least index of keys with the property, 0 when there is none.
FirstIndex(Has(_)) ==
    IF \E i \in 1 .. Len(keys) : Has(i)
    THEN CHOOSE i \in 1 .. Len(keys) :
             Has(i) /\ \A j \in 1 .. (i - 1) : ~Has(j)
    ELSE 0

\* What is hit at key i: its body before its left handle before its right.
HitAt(i, pos) ==
    IF BodyHit(i, pos) THEN Some(PickResult("Key", i))
    ELSE IF LeftHit(i, pos) THEN Some(PickResult("LeftTangent", i))
    ELSE Some(PickResult("RightTangent", i))

\* The positions pick is asked about: those of the mouse, and where the
\* handles of each key would be, whatever its kind.
ProbePositions ==
    MousePositions
    \cup {VAdd(point_to_screen_space(Editor, keys[i].position), o) :
              i \in 1 .. Len(keys),
              o \in HandleOffsets \cup {Vector2(F(-30), F(0))}}

\* C21 as stated: pick returns the first key in index order whose square
\* contains the position; with no such key, the first handle hit of a Cubic
\* key, left before right; None when nothing is hit.
C21_PickFirstKeyBody ==
    \A pos \in ProbePositions :
        LET body == FirstIndex(LAMBDA i : BodyHit(i, pos))
            handle == FirstIndex(LAMBDA i : LeftHit(i, pos) \/ RightHit(i, pos))
        IN pick(Editor, pos) =
              (IF body # 0 THEN Some(PickResult("Key", body))
               ELSE IF handle # 0 THEN HitAt(handle, pos)
               ELSE None)

\* C21 as amended: pick returns what is hit at the first key in index order
\* of which the body or, if it is Cubic, a handle is hit: the body before
\* the left handle before the right one; None when nothing is hit.  A handle
\* of an earlier key goes before the body of a later one.
C21_PickFirstHit ==
    \A pos \in ProbePositions :
        LET first == FirstIndex(LAMBDA i : \/ BodyHit(i, pos)
                                           \/ LeftHit(i, pos)
                                           \/ RightHit(i, pos))
        IN pick(Editor, pos) = (IF first # 0 THEN HitAt(first, pos) ELSE None)

\* Reached: the editor has drawn and the left handle of a key, dragged
\* upright, lies in the square of a later key; pick asked about that place
\* returns the handle.
C21_Witness ==
    /\ MatricesAreCurrent
    /\ ~ce_panicked
    /\ ce_step.op = "MouseMove"
    /\ ce_step.context = "DragTangent"
    /\ \E pos \in ProbePositions :
       \E i \in 1 .. Len(keys) : \E j \in (i + 1) .. Len(keys) :
          /\ BodyHit(j, pos)
          /\ LeftHit(i, pos)
          /\ ~BodyHit(i, pos)
          /\ pick(Editor, pos) = Some(PickResult("LeftTangent", i))

\* The message the next delivery hands to the widget is a CurveEditorMessage
\* that is not both for the editor and of direction ToWidget.
NextIsForeignCurveEditorMessage ==
    /\ ~ce_panicked
    /\ ce_queue # <<>>
    /\ Head(ce_queue).type \in CurveEditorMessageTypes
    /\ ~(Head(ce_queue).destination = "editor"
         /\ Head(ce_queue).direction = "ToWidget")

\* C22: a CurveEditorMessage changes the keys, the zoom, the view position
\* and the selection of the editor only when its destination is the editor
\* and its direction is ToWidget: the delivery of any other one (the
\* editor's own FromWidget Sync, a message for another widget) leaves the
\* four as they were.
C22_ForeignMessageChangesNothing ==
    [][NextIsForeignCurveEditorMessage
           => UNCHANGED <<keys, zoom, view_position, selection>>]_vars

\* The editor has just been handed its own FromWidget Sync, sent after it
\* changed its keys.
C22_Witness ==
    /\ ~ce_panicked
    /\ ce_step.op = "Sync"
    /\ ce_step.destination = "editor"
    /\ ce_step.direction = "FromWidget"
    /\ keys # <<>>
    /\ ce_synced = None

\* ================================================= ParticleSystemSection

\* Largest number of emitters of a particle system.
MaxEmitters == 3

EmitterKinds == {"Box", "Sphere", "Cylinder"}

Node(is_particle_system, emitters, acceleration) ==
    [is_particle_system |-> is_particle_system, emitters |-> emitters,
     acceleration |-> acceleration]

\* "Try to keep selection" with > in place of >=.
KeepSelectionOffByOne(index, len) ==
    IF IsSome(index)
    THEN IF Unwrap(index) > len THEN None ELSE index
    ELSE IF len # 0 THEN Some(0) ELSE index

\* "Try to keep selection."
KeepSelection(index, len) ==
    IF IsSome(index)
    THEN IF Unwrap(index) >= len THEN None ELSE index
    ELSE IF len # 0 THEN Some(0) ELSE index

\* ParticleSystemSection::sync_to_model: ok is FALSE when it panicked.
ps_sync_to_model(index, items, node) ==
    IF node.is_particle_system
    THEN LET kept == KeepSelection(index, Len(node.emitters))
         IN [emitter_index |-> kept,
             items |-> Len(node.emitters),
             ok |-> IsSome(kept) => Unwrap(kept) < Len(node.emitters)]
    ELSE [emitter_index |-> index, items |-> items, ok |-> TRUE]

PsMessage(type, to, selected, item, value) ==
    [type |-> type, to |-> to, selection |-> selected, item |-> item,
     value |-> value]

\* The match of handle_message: the messages it sends and the selection.
PsMatch(index, node, message) ==
    CASE message.type = "Vec3Editor" ->
           [emitter_index |-> index,
            sent |-> IF node.acceleration # message.value
                        /\ message.to = "acceleration"
                     THEN <<"SetParticleSystemAcceleration">> ELSE <<>>]
      [] message.type = "ButtonClick" ->
           [emitter_index |-> index,
            sent |-> CASE message.to = "add_box_emitter" ->
                            <<"AddParticleSystemEmitter">>
                       [] message.to = "add_sphere_emitter" ->
                            <<"AddParticleSystemEmitter">>
                       [] message.to = "add_cylinder_emitter" ->
                            <<"AddParticleSystemEmitter">>
                       [] OTHER -> <<>>]
      [] message.type = "Delete" ->
           [emitter_index |-> index,
            sent |-> IF message.to = "item" THEN <<"DeleteEmitter">> ELSE <<>>]
      [] message.type = "SelectionChanged" ->
           IF message.to = "emitters"
           THEN [emitter_index |-> message.selection, sent |-> <<"SyncToModel">>]
           ELSE [emitter_index |-> index, sent |-> <<>>]
      [] OTHER -> [emitter_index |-> index, sent |-> <<>>]

\* ParticleSystemSection::handle_message: ok is FALSE when indexing the
\* emitters with the selection panicked.
ps_handle_message(index, node, message) ==
    IF node.is_particle_system
    THEN IF IsSome(index) /\ Unwrap(index) >= Len(node.emitters)
         THEN [emitter_index |-> index, sent |-> <<>>, ok |-> FALSE]
         ELSE LET m == PsMatch(index, node, message)
              IN [emitter_index |-> m.emitter_index, sent |-> m.sent,
                  ok |-> TRUE]
    ELSE [emitter_index |-> index, sent |-> <<>>, ok |-> TRUE]

PsStep(op, index_before, len_before, is_particle_system) ==
    [op |-> op, index_before |-> index_before, len_before |-> len_before,
     is_particle_system |-> is_particle_system]

PsHere(op) ==
    PsStep(op, emitter_index, Len(ps_node.emitters), ps_node.is_particle_system)

PsSyncToModel ==
    /\ ~ps_panicked
    /\ LET r == ps_sync_to_model(emitter_index, ps_items, ps_node)
       IN /\ emitter_index' = r.emitter_index
          /\ ps_items' = r.items
          /\ ps_panicked' = ~r.ok
    /\ ps_sent' = <<>>
    /\ ps_step' = PsHere("sync_to_model")
    /\ UNCHANGED ps_node
    /\ ParticleOnly

PsHandleMessage(message) ==
    /\ ~ps_panicked
    /\ LET r == ps_handle_message(emitter_index, ps_node, message)
       IN /\ emitter_index' = r.emitter_index
          /\ ps_sent' = r.sent
          /\ ps_panicked' = ~r.ok
    /\ ps_step' = PsHere("handle_message")
    /\ UNCHANGED <<ps_node, ps_items>>
    /\ ParticleOnly

\* The messages the user interface delivers to the section.
PsMessages ==
    {PsMessage("Vec3Editor", to, None, 0, value) :
        to \in {"acceleration", "other"}, value \in 0 .. 1}
    \cup {PsMessage("ButtonClick", to, None, 0, 0) :
        to \in {"add_box_emitter", "add_sphere_emitter",
                "add_cylinder_emitter", "other"}}
    \cup {PsMessage("Delete", "item", None, i, 0) : i \in 0 .. (ps_items - 1)}
    \cup {PsMessage("Delete", "other", None, 0, 0)}
    \cup {PsMessage("SelectionChanged", to, selected, 0, 0) :
        to \in {"emitters", "other"},
        selected \in {None} \cup {Some(i) : i \in 0 .. (ps_items - 1)}}
    \cup {PsMessage("Other", "other", None, 0, 0)}

\* A scene command adds an emitter to the inspected particle system.
PsAddEmitter(kind) ==
    /\ ~ps_panicked
    /\ ps_node.is_particle_system
    /\ Len(ps_node.emitters) < MaxEmitters
    /\ ps_node' = [ps_node EXCEPT !.emitters = Append(@, kind)]
    /\ ps_step' = PsHere("add_emitter")
    /\ UNCHANGED <<emitter_index, ps_items, ps_panicked, ps_sent>>
    /\ ParticleOnly

\* A scene command deletes emitter i of the inspected particle system.
PsDeleteEmitter(i) ==
    /\ ~ps_panicked
    /\ ps_node.is_particle_system
    /\ i < Len(ps_node.emitters)
    /\ ps_node' = [ps_node EXCEPT !.emitters =
                      SubSeq(@, 1, i) \o SubSeq(@, i + 2, Len(@))]
    /\ ps_step' = PsHere("delete_emitter")
    /\ UNCHANGED <<emitter_index, ps_items, ps_panicked, ps_sent>>
    /\ ParticleOnly

\* A scene command sets the acceleration of the inspected particle system.
PsSetAcceleration(value) ==
    /\ ~ps_panicked
    /\ ps_node.is_particle_system
    /\ ps_node' = [ps_node EXCEPT !.acceleration = value]
    /\ ps_step' = PsHere("set_acceleration")
    /\ UNCHANGED <<emitter_index, ps_items, ps_panicked, ps_sent>>
    /\ ParticleOnly

\* The nodes of the scene the user can select for inspection.
PsSceneNodes ==
    {Node(FALSE, <<>>, 0), Node(TRUE, <<>>, 0), Node(TRUE, <<"Box">>, 0),
     Node(TRUE, <<"Sphere", "Cylinder">>, 1)}

\* The editor's selection changes: another node is inspected.
PsSelectNode(node) ==
    /\ ~ps_panicked
    /\ ps_node' = node
    /\ ps_step' = PsHere("select_node")
    /\ UNCHANGED <<emitter_index, ps_items, ps_panicked, ps_sent>>
    /\ ParticleOnly

\* ParticleSystemSection::new, with no particle system inspected yet.
PsInit ==
    /\ ps_node = Node(FALSE, <<>>, 0)
    /\ emitter_index = None
    /\ ps_items = 0
    /\ ps_panicked = FALSE
    /\ ps_sent = <<>>
    /\ ps_step = PsStep("new", None, 0, FALSE)

PsNext ==
    \/ PsSyncToModel
    \/ \E message \in PsMessages : PsHandleMessage(message)
    \/ \E kind \in EmitterKinds : PsAddEmitter(kind)
    \/ \E i \in 0 .. (MaxEmitters - 1) : PsDeleteEmitter(i)
    \/ \E value \in 0 .. 1 : PsSetAcceleration(value)
    \/ \E node \in PsSceneNodes : PsSelectNode(node)

\* C10: sync_to_model on a particle system keeps a selection that is in
\* range, selects emitter 0 when nothing is selected and there is an
\* emitter, and drops a selection that is out of range.
C10_SyncKeepsSelection ==
    (ps_step.op = "sync_to_model" /\ ps_step.is_particle_system) =>
        LET before == ps_step.index_before
            len == ps_step.len_before
        IN /\ (IsSome(before) /\ Unwrap(before) < len) =>
                  emitter_index = before
           /\ (before = None /\ len >= 1) => emitter_index = Some(0)
           /\ (IsSome(before) /\ Unwrap(before) >= len) =>
                  emitter_index = None

\* Reached: a sync found the selection just past the last emitter and
\* dropped it.
C10_Witness ==
    /\ ps_step.op = "sync_to_model"
    /\ ps_step.is_particle_system
    /\ ps_step.len_before >= 1
    /\ ps_step.index_before = Some(ps_step.len_before)
    /\ emitter_index = None
    /\ ~ps_panicked

\* C14: whenever handle_message or sync_to_model indexes the emitters of the
\* particle system with emitter_index, the index is smaller than the number
\* of emitters: handle_message with the selection it finds, sync_to_model
\* with the selection it kept.
C14_EmitterIndexInRange ==
    /\ (ps_step.op = "handle_message" /\ ps_step.is_particle_system
            /\ IsSome(ps_step.index_before)) =>
          Unwrap(ps_step.index_before) < ps_step.len_before
    /\ (ps_step.op = "sync_to_model" /\ ps_step.is_particle_system
            /\ IsSome(emitter_index)) =>
          Unwrap(emitter_index) < ps_step.len_before

\* ======================================================= specifications
\* One specification per panel; the other panels stay as constructed.

Init == AbsmInit /\ CurveInit /\ PsInit

InitGiven == AbsmInitGiven /\ CurveInit /\ PsInit

SpecAbsmGiven == InitGiven /\ [][AbsmNext]_vars

SpecAbsm == Init /\ [][AbsmNext]_vars

SpecCurve == Init /\ [][CurveNext]_vars

SpecParticle == Init /\ [][PsNext]_vars

====
